---------------------------- MODULE Spec2Model ----------------------------
(***************************************************************************)
(* Verification model of mic-map.                                          *)
(*                                                                         *)
(*   - TriggerStateMachine: StateMachineImpl of                            *)
(*     src/src/core/src/state_machine.cpp (specification SMSpec).          *)
(*   - Detector gating: FFTNoiseDetector::analyze of                       *)
(*     src/src/detection/src/noise_detector.cpp (specification DetSpec).   *)
(*                                                                         *)
(* Durations are std::chrono::milliseconds, modelled as naturals.          *)
(* A float is modelled as a record [nan, v]: v is the value in hundredths, *)
(* nan marks a NaN, for which every ordered comparison is false.           *)
(***************************************************************************)
EXTENDS Integers, Sequences, FiniteSets, TLC

(***************************************************************************)
(* Bounds of the model.                                                    *)
(***************************************************************************)
\* largest minDetectionDuration / cooldownDuration a configuration carries
MaxDuration == 2
\* largest deltaTime passed to update
MaxDelta == 2
\* update is not called once timeInState_ + deltaTime would exceed this
MaxTime == 4
\* the observers below count callback invocations up to this number
MaxCount == 2
\* the steady clock advances in steps of this many milliseconds
ClockStep == 100
\* the steady clock is followed for this many steps
MaxTicks == 6
\* analyze is called at most this many times
MaxBlocks == 3
\* the blocks that reach the scoring are logged up to this many
MaxScored == 13
\* largest energy / energyThreshold that is scored, in hundredths
MaxRatio == 600
\* largest step, in hundredths, from one scored ratio to the next
MaxRatioStep == 3
\* accepted training samples are collected up to this many per training
MaxSamples == 5
\* startTraining is called at most this many times
MaxTrainings == 2
\* analyze calls followed while the detector is trained
MaxTrainBlocks == 1
\* PatternTrainer::addSample gets past its rate limit at most this many times
MaxCollected == 3
\* saveTrainingData and loadTrainingData calls followed
MaxCalls == 3

VARIABLES
    \* ---- StateMachineImpl (state_machine.cpp:153-158)
    config_,               \* StateMachineConfig
    currentState_,         \* State
    timeInState_,          \* std::chrono::milliseconds
    triggerCallback_,      \* TRUE iff a non-empty TriggerCallback is registered
    stateChangeCallback_,  \* TRUE iff a non-empty StateChangeCallback is registered
    \* ---- observers of the state machine (not program state)
    smOp,      \* the last call: its name, arguments, and the state it found
    smEvents,  \* the callbacks that call invoked, in order
    streak,    \* the current run of updates at or above the threshold
    run,       \* the current run of 0.9-updates that began in Idle
    gap,       \* the updates since the latest trigger callback invocation
    \* ---- FFTNoiseDetector (noise_detector.cpp:631-669)
    minDetectionDurationMs_,   \* int
    hasTrainingData_,          \* bool
    detectionStartTime_,       \* steady_clock::time_point, in ms
    isCurrentlyDetecting_,     \* bool
    spikeTriggered_,           \* bool
    spikeTime_,                \* steady_clock::time_point, in ms
    energyHistory_,            \* std::vector<float>
    energyHistoryIndex_,       \* size_t
    confidenceHistory_,        \* std::vector<bool>
    confidenceHistoryIndex_,   \* size_t
    \* ---- environment of the detector
    now,       \* std::chrono::steady_clock::now(), in ms
    \* ---- observers of the detector (not program state)
    detOp,     \* the last call and, for analyze, what it computed and returned
    held,      \* the latest analyze calls whose instant detection was true
    blocks,    \* number of analyze calls so far
    past,      \* what the analyze calls so far were given and returned
    scoredLog, \* the blocks that reached the scoring of analyze, in order
    \* ---- the energy-ratio score of analyze (noise_detector.cpp:268-278)
    ratioCall,   \* the latest computation: its inputs and energyRatio
    ratioBefore, \* the computation before it
    \* ---- FFTNoiseDetector, training (noise_detector.cpp:631-651)
    sensitivity_,                \* float
    training_,                   \* bool
    trainingSpectra_,            \* std::vector<std::vector<float>>
    trainingEnergies_,           \* std::vector<float>
    trainingFlatnesses_,         \* std::vector<float>
    trainingData_,               \* TrainingData
    spectralFlatnessThreshold_,  \* float
    energyMinThreshold_,         \* float
    energyVarianceThreshold_,    \* float
    \* ---- observers of the training (not program state)
    trainOp,     \* the last training or persistence call, what it found and returned
    accepted,    \* the samples accepted since the latest startTraining
    everTrained, \* TRUE iff a finishTraining or loadTrainingData returned true
    trainings,   \* number of startTraining calls so far
    profileFrom, \* the call that produced the profile held, or "none"
    \* ---- PatternTrainer (pattern_trainer.cpp:22-47)
    impl_,       \* std::unique_ptr<Impl>: the Impl it points to
    \* ---- observers of the PatternTrainer (not program state)
    ptOp,        \* the last call, what it returned and the profile it found
    ptHeld,      \* the profile held before the latest startTraining
    \* ---- environment of the persistence
    disk,        \* the file at the path given to saveTrainingData
    \* ---- observers of the persistence (not program state)
    saved,       \* the profile held when saveTrainingData last wrote the file
    calls,       \* number of saveTrainingData and loadTrainingData calls
    \* ---- FFTNoiseDetector (noise_detector.cpp:672) and its two callers
    mutex_,      \* std::mutex: the thread that holds it, or "free"
    threads,     \* per thread: the operation it runs and how far it has come
    \* ---- observers of the concurrency (not program state)
    installed,   \* the complete profiles finishTraining and loadTrainingData made
    lastAnalyze, \* what the latest analyze that returned had read
    \* ---- MicMapApp (apps/micmap/main.cpp:58-104)
    detectionStartTime,  \* steady_clock::time_point, in ms
    detectionActive,     \* std::atomic<bool>
    buttonWouldFire,     \* std::atomic<bool>
    inCooldown,          \* std::atomic<bool>
    lastTriggerTime,     \* steady_clock::time_point, in ms
    lastUpdate,          \* steady_clock::time_point, in ms
    detectionTimeMs,     \* int
    \* ---- observers of the application (not program state)
    gesture,     \* the current run of blocks reported as white noise
    callbacks,   \* number of audio callbacks so far
    \* ---- MicMapApp and WASAPICapture: the UI thread and the capture thread
    detector,    \* std::unique_ptr<INoiseDetector>: which instance it owns
    isTraining,  \* std::atomic<bool>
    audioMutex,  \* std::mutex: "free" or the thread holding it
    capturing_,  \* WASAPICapture::capturing_
    capture,     \* the capture thread: where it is, the instance it calls on
    ui,          \* the UI thread: where it is inside renderUI
    \* ---- AudioBuffer (audio_buffer.hpp:91-95)
    buffer_,     \* std::vector<float>, slot i of the source is buffer_[i + 1]
    capacity_,   \* size_t
    readPos_,    \* std::atomic<size_t>
    writePos_,   \* std::atomic<size_t>
    \* ---- observers of the AudioBuffer (not program state)
    bufOp,       \* the latest call, what it found and what it returned
    stored,      \* the samples accepted by write so far, in order
    returned,    \* the samples returned by read so far, in order
    offered,     \* number of samples offered to write so far
    obs,         \* a thread calling available, space, empty or full
    \* ---- VirtualController (virtual_controller.hpp:143-162)
    systemButtonPressed_,  \* std::atomic<bool>
    aButtonPressed_,       \* std::atomic<bool>
    triggerPressed_,       \* std::atomic<bool>
    pendingReleases_,      \* std::vector<PendingRelease>
    reported,    \* what VRDriverInput was last told of each boolean component
    steady,      \* std::chrono::steady_clock, in ms
    \* ---- observers of the VirtualController (not program state)
    ctlOp,       \* the latest call, and the clicks whose time it found passed
    promises,    \* the clicks made: the button and the time it is held until
    clicks,      \* number of Click calls so far
    \* ---- HttpServer (http_server.hpp:81-86)
    port_,          \* int
    running_,       \* std::atomic<bool>
    serverThread_,  \* std::thread: where ServerThread is
    starter         \* the thread inside Start: where it is, its locals

smVars == <<config_, currentState_, timeInState_, triggerCallback_,
            stateChangeCallback_, smOp, smEvents, streak, run, gap>>

detVars == <<minDetectionDurationMs_, hasTrainingData_, detectionStartTime_,
             isCurrentlyDetecting_, spikeTriggered_, spikeTime_,
             energyHistory_, energyHistoryIndex_,
             confidenceHistory_, confidenceHistoryIndex_,
             now, detOp, held, blocks, past>>

histVars == <<scoredLog>>

scoreVars == <<ratioCall, ratioBefore>>

trainVars == <<sensitivity_, training_, trainingSpectra_, trainingEnergies_,
               trainingFlatnesses_, trainingData_, spectralFlatnessThreshold_,
               energyMinThreshold_, energyVarianceThreshold_,
               trainOp, accepted, everTrained, trainings, profileFrom>>

ptVars == <<impl_, ptOp, ptHeld>>

\* the components beside the detector and the state machine
persistVars == <<disk, saved, calls>>

concVars == <<mutex_, threads, installed, lastAnalyze>>

appVars == <<detectionStartTime, detectionActive, buttonWouldFire, inCooldown,
             lastTriggerTime, lastUpdate, detectionTimeMs, gesture, callbacks>>

uiVars == <<detector, isTraining, audioMutex, capturing_, capture, ui>>

bufVars == <<buffer_, capacity_, readPos_, writePos_, bufOp, stored,
             returned, offered, obs>>

ctlVars == <<systemButtonPressed_, aButtonPressed_, triggerPressed_,
             pendingReleases_, reported, steady, ctlOp, promises, clicks>>

httpVars == <<port_, running_, serverThread_, starter>>

\* the components that the application does not drive
apartVars == <<bufVars, ctlVars, httpVars>>

\* what lies outside the detection library
hostVars == <<appVars, uiVars, apartVars>>

sideVars == <<ptVars, persistVars, concVars, hostVars>>

\* everything but the state machine
detectorVars == <<detVars, histVars, scoreVars, trainVars, sideVars>>

vars == <<smVars, detVars, histVars, scoreVars, trainVars, sideVars>>

(***************************************************************************)
(* Floats.                                                                 *)
(***************************************************************************)
Float(v) == [nan |-> FALSE, v |-> v]
NaN == [nan |-> TRUE, v |-> 0]

\* a >= b on floats
FloatGE(a, b) == ~a.nan /\ ~b.nan /\ a.v >= b.v
\* a < b on floats
FloatLT(a, b) == ~a.nan /\ ~b.nan /\ a.v < b.v

Min(a, b) == IF a <= b THEN a ELSE b

(***************************************************************************)
(* Inputs.                                                                 *)
(***************************************************************************)
States == {"Idle", "Training", "Detecting", "Triggered", "Cooldown"}

\* detectionThreshold values a configuration carries (0.7 is the default)
Thresholds == {Float(70), Float(90)}
\* detectionConfidence values passed to update
Confidences == {Float(30), Float(70), Float(90), NaN}
DeltaTimes == 0..MaxDelta
Durations == 0..MaxDuration

Configs == [minDetectionDuration : Durations,
            cooldownDuration : Durations,
            detectionThreshold : Thresholds]

(***************************************************************************)
(* StateMachineImpl.  A call works on m = [state, time, events]: the       *)
(* machine's state and time-in-state, and the callbacks invoked so far by  *)
(* the call.  An event records the callback, its arguments and the state   *)
(* getCurrentState() returns while the callback runs.                      *)
(***************************************************************************)
StateChangeEvent(old, new) ==
    [cb |-> "stateChange", old |-> old, new |-> new, seen |-> new]

TriggerEvent(seen) ==
    [cb |-> "trigger", old |-> seen, new |-> seen, seen |-> seen]

\* mutant: no early return when the state is already newState
TransitionTo_Always(m, newState) ==
    [state |-> newState,
     time |-> 0,
     events |-> IF stateChangeCallback_
                THEN Append(m.events, StateChangeEvent(m.state, newState))
                ELSE m.events]

\* mutant: the transition keeps the time-in-state
TransitionTo_KeepTime(m, newState) ==
    IF newState = m.state
    THEN m
    ELSE [state |-> newState,
          time |-> m.time,
          events |-> IF stateChangeCallback_
                     THEN Append(m.events, StateChangeEvent(m.state, newState))
                     ELSE m.events]

\* void transitionTo(State newState)
TransitionTo(m, newState) ==
    IF newState = m.state
    THEN m
    ELSE [state |-> newState,
          time |-> 0,
          events |-> IF stateChangeCallback_
                     THEN Append(m.events, StateChangeEvent(m.state, newState))
                     ELSE m.events]

\* if (triggerCallback_) triggerCallback_();
InvokeTrigger(m) ==
    IF triggerCallback_
    THEN [m EXCEPT !.events = Append(@, TriggerEvent(m.state))]
    ELSE m

\* void updateIdle(float detectionConfidence)
UpdateIdle(m, conf) ==
    IF FloatGE(conf, config_.detectionThreshold)
    THEN TransitionTo(m, "Detecting")
    ELSE m

\* mutant: the duration test is strict
UpdateDetecting_Strict(m, conf) ==
    IF FloatLT(conf, config_.detectionThreshold)
    THEN TransitionTo(m, "Idle")
    ELSE IF m.time > config_.minDetectionDuration
         THEN InvokeTrigger(TransitionTo(m, "Triggered"))
         ELSE m

\* mutant: the duration is tested before the confidence
UpdateDetecting_DurationFirst(m, conf) ==
    IF m.time >= config_.minDetectionDuration
    THEN InvokeTrigger(TransitionTo(m, "Triggered"))
    ELSE IF FloatLT(conf, config_.detectionThreshold)
         THEN TransitionTo(m, "Idle")
         ELSE m

\* mutant: the trigger callback is invoked before the transition
UpdateDetecting_TriggerFirst(m, conf) ==
    IF FloatLT(conf, config_.detectionThreshold)
    THEN TransitionTo(m, "Idle")
    ELSE IF m.time >= config_.minDetectionDuration
         THEN TransitionTo(InvokeTrigger(m), "Triggered")
         ELSE m

\* void updateDetecting(float detectionConfidence)
UpdateDetecting(m, conf) ==
    IF FloatLT(conf, config_.detectionThreshold)
    THEN TransitionTo(m, "Idle")
    ELSE IF m.time >= config_.minDetectionDuration
         THEN InvokeTrigger(TransitionTo(m, "Triggered"))
         ELSE m

\* mutant: Triggered returns straight to Idle, skipping the cooldown
UpdateTriggered_ToIdle(m) == TransitionTo(m, "Idle")

\* void updateTriggered()
UpdateTriggered(m) == TransitionTo(m, "Cooldown")

\* mutant: Cooldown is left by the first update, whatever time has passed
UpdateCooldown_NoWait(m) == TransitionTo(m, "Idle")

\* mutant: the cooldown test is strict
UpdateCooldown_Strict(m) ==
    IF m.time > config_.cooldownDuration
    THEN TransitionTo(m, "Idle")
    ELSE m

\* void updateCooldown()
UpdateCooldown(m) ==
    IF m.time >= config_.cooldownDuration
    THEN TransitionTo(m, "Idle")
    ELSE m

\* mutant: case Training lacks its break and falls through to case Detecting
UpdateSwitch_Fallthrough(m, conf) ==
    CASE m.state = "Idle"      -> UpdateIdle(m, conf)
      [] m.state = "Training"  -> UpdateDetecting(m, conf)
      [] m.state = "Detecting" -> UpdateDetecting(m, conf)
      [] m.state = "Triggered" -> UpdateTriggered(m)
      [] m.state = "Cooldown"  -> UpdateCooldown(m)

\* mutant: Training is handled like Idle
UpdateSwitch_TrainingAsIdle(m, conf) ==
    CASE m.state \in {"Idle", "Training"} -> UpdateIdle(m, conf)
      [] m.state = "Detecting" -> UpdateDetecting(m, conf)
      [] m.state = "Triggered" -> UpdateTriggered(m)
      [] m.state = "Cooldown"  -> UpdateCooldown(m)

\* the switch of update(), after timeInState_ += deltaTime
UpdateSwitch(m, conf) ==
    CASE m.state = "Idle"      -> UpdateIdle(m, conf)
      [] m.state = "Training"  -> m
      [] m.state = "Detecting" -> UpdateDetecting(m, conf)
      [] m.state = "Triggered" -> UpdateTriggered(m)
      [] m.state = "Cooldown"  -> UpdateCooldown(m)

\* the machine as a call finds it
Machine == [state |-> currentState_, time |-> timeInState_, events |-> <<>>]

(***************************************************************************)
(* Observers.                                                              *)
(***************************************************************************)
Call(op, conf, dt) ==
    [op |-> op, conf |-> conf, dt |-> dt,
     pre |-> currentState_, preTime |-> timeInState_]

\* number of trigger callback invocations in a sequence of events
RECURSIVE Triggers(_)
Triggers(ev) ==
    IF ev = <<>> THEN 0
    ELSE (IF Head(ev).cb = "trigger" THEN 1 ELSE 0) + Triggers(Tail(ev))

\* the notifications among a sequence of events
RECURSIVE Notifications(_)
Notifications(ev) ==
    IF ev = <<>> THEN <<>>
    ELSE (IF Head(ev).cb = "stateChange" THEN <<Head(ev)>> ELSE <<>>)
         \o Notifications(Tail(ev))

NoRun == [active |-> FALSE, len |-> 0, first |-> 0, sum |-> 0, fired |-> 0]

\* sums of a run are followed up to here; a larger sum is recorded as SumCap
SumCap == MaxDuration + MaxDelta + 1

\* A run is a sequence of consecutive update calls, all with confidence 0.9
\* (at or above the threshold), the first of them made in state Idle with a
\* trigger callback registered.  Any other call ends the run.
RunAfterUpdate(conf, dt, m) ==
    IF conf = Float(90) /\ FloatGE(conf, config_.detectionThreshold)
    THEN IF run.active
         THEN [run EXCEPT !.len = Min(@ + 1, MaxCount),
                          !.sum = Min(@ + dt, SumCap),
                          !.fired = Min(@ + Triggers(m.events), MaxCount)]
         ELSE IF currentState_ = "Idle" /\ triggerCallback_
              THEN [active |-> TRUE, len |-> 1, first |-> dt, sum |-> dt,
                    fired |-> Triggers(m.events)]
              ELSE NoRun
    ELSE NoRun

NoStreak == [entries |-> 0, lap |-> <<>>]

\* A streak is a maximal run of consecutive update calls whose confidence is
\* at or above the threshold.  entries counts the streak's entries into
\* Triggered; lap lists the states the streak entered after its previous entry
\* into Triggered (or since it began), the latest one last.
StreakAfterUpdate(conf, m) ==
    IF FloatGE(conf, config_.detectionThreshold)
    THEN IF m.state = currentState_
         THEN streak
         ELSE [entries |-> IF m.state = "Triggered"
                           THEN Min(streak.entries + 1, MaxCount)
                           ELSE streak.entries,
               lap |-> IF currentState_ = "Triggered"
                       THEN <<m.state>>
                       ELSE Append(streak.lap, m.state)]
    ELSE NoStreak

\* gap follows the update calls made since the latest trigger callback
\* invocation, while no other call is made: n counts the updates that did not
\* invoke the callback (up to GapCount) and sum adds the deltaTimes of all of
\* them (up to GapCap).  When an update invokes the callback again, closed is
\* set and lastN, lastSum hold n and sum (the deltaTime of that update
\* included) as that invocation found them.
NoGap == [open |-> FALSE, n |-> 0, sum |-> 0,
          closed |-> FALSE, lastN |-> 0, lastSum |-> 0]

GapCap == 2 * MaxDuration + 1
GapCount == MaxCount + 1

GapAfterUpdate(dt, m) ==
    IF Triggers(m.events) > 0
    THEN [open |-> TRUE, n |-> 0, sum |-> 0,
          closed |-> gap.open,
          lastN |-> IF gap.open THEN gap.n ELSE 0,
          lastSum |-> IF gap.open THEN Min(gap.sum + dt, GapCap) ELSE 0]
    ELSE IF gap.open
         THEN [open |-> TRUE, n |-> Min(gap.n + 1, GapCount),
               sum |-> Min(gap.sum + dt, GapCap),
               closed |-> FALSE, lastN |-> 0, lastSum |-> 0]
         ELSE NoGap

(***************************************************************************)
(* Operations of IStateMachine.                                            *)
(***************************************************************************)
\* StateMachineImpl(config)
SMConstructed(config) ==
    /\ config_ = config
    /\ currentState_ = "Idle"
    /\ timeInState_ = 0
    /\ triggerCallback_ = FALSE
    /\ stateChangeCallback_ = FALSE
    /\ smOp = [op |-> "init", conf |-> Float(0), dt |-> 0,
               pre |-> "Idle", preTime |-> 0]
    /\ smEvents = <<>>
    /\ streak = NoStreak
    /\ run = NoRun
    /\ gap = NoGap

\* the machine after update(detectionConfidence, deltaTime)
UpdateResult(conf, dt) ==
    UpdateSwitch([Machine EXCEPT !.time = @ + dt], conf)

\* void update(float detectionConfidence, std::chrono::milliseconds deltaTime)
UpdateCall(conf, dt) ==
    /\ timeInState_ + dt <= MaxTime
    /\ LET m == UpdateResult(conf, dt)
       IN /\ currentState_' = m.state
          /\ timeInState_' = m.time
          /\ smEvents' = m.events
          /\ run' = RunAfterUpdate(conf, dt, m)
          /\ streak' = StreakAfterUpdate(conf, m)
    /\ smOp' = Call("update", conf, dt)
    /\ UNCHANGED <<config_, triggerCallback_, stateChangeCallback_>>
    /\ UNCHANGED detectorVars

Update(conf, dt) ==
    /\ UpdateCall(conf, dt)
    /\ UNCHANGED gap

\* update, with the updates since the latest trigger followed
UpdateTimed(conf, dt) ==
    /\ UpdateCall(conf, dt)
    /\ gap' = GapAfterUpdate(dt, UpdateResult(conf, dt))

\* the machine after startTraining()
StartTrainingResult ==
    IF currentState_ # "Training" THEN TransitionTo(Machine, "Training")
    ELSE Machine

\* the machine after stopTraining()
StopTrainingResult ==
    IF currentState_ = "Training" THEN TransitionTo(Machine, "Idle")
    ELSE Machine

\* the machine after reset()
ResetResult == TransitionTo(Machine, "Idle")

\* a call that is not update leaves m behind
Control(op, m) ==
    /\ currentState_' = m.state
    /\ timeInState_' = m.time
    /\ smEvents' = m.events
    /\ smOp' = Call(op, Float(0), 0)
    /\ run' = NoRun
    /\ streak' = NoStreak
    /\ gap' = NoGap

StartTraining ==
    /\ Control("startTraining", StartTrainingResult)
    /\ UNCHANGED <<config_, triggerCallback_, stateChangeCallback_>>
    /\ UNCHANGED detectorVars

StopTraining ==
    /\ Control("stopTraining", StopTrainingResult)
    /\ UNCHANGED <<config_, triggerCallback_, stateChangeCallback_>>
    /\ UNCHANGED detectorVars

Reset ==
    /\ Control("reset", ResetResult)
    /\ UNCHANGED <<config_, triggerCallback_, stateChangeCallback_>>
    /\ UNCHANGED detectorVars

\* configure(config)
Configure(c) ==
    /\ config_' = c
    /\ Control("configure", Machine)
    /\ UNCHANGED <<triggerCallback_, stateChangeCallback_>>
    /\ UNCHANGED detectorVars

\* setTriggerCallback(callback); callback may be an empty std::function
SetTriggerCallback(b) ==
    /\ triggerCallback_' = b
    /\ Control("setTriggerCallback", Machine)
    /\ UNCHANGED <<config_, stateChangeCallback_>>
    /\ UNCHANGED detectorVars

\* setStateChangeCallback(callback)
SetStateChangeCallback(b) ==
    /\ stateChangeCallback_' = b
    /\ Control("setStateChangeCallback", Machine)
    /\ UNCHANGED <<config_, triggerCallback_>>
    /\ UNCHANGED detectorVars

SMNext ==
    \/ \E conf \in Confidences, dt \in DeltaTimes : Update(conf, dt)
    \/ StartTraining
    \/ StopTraining
    \/ Reset
    \/ \E c \in Configs : Configure(c)
    \/ \E b \in BOOLEAN : SetTriggerCallback(b)
    \/ \E b \in BOOLEAN : SetStateChangeCallback(b)

(***************************************************************************)
(* FFTNoiseDetector: the gating of analyze.                                *)
(*                                                                         *)
(* A block is what analyze is given together with what the spectral        *)
(* analysis and the scoring make of it: empty is (!samples || count == 0), *)
(* energyDb is 10 log10(spectral.energy), conf is result.confidence in     *)
(* hundredths.  The floating-point scoring itself is not part of this      *)
(* section: its outcome is an input here.  An energy is kept as its dB     *)
(* value.  The calls of steady_clock::now() made by one analyze call read  *)
(* the same instant.                                                       *)
(***************************************************************************)
DEFAULT_MIN_DETECTION_DURATION_MS == 300
\* the window "elapsed < 500" of an armed spike
SPIKE_WINDOW_MS == 500
\* the bound of "energyDb > -10.0f"
SPIKE_DB == -10
\* the bound of "result.confidence >= 0.60f", in hundredths
HIGH_CONFIDENCE == 60
ENERGY_HISTORY_SIZE == 10
CONFIDENCE_HISTORY_SIZE == 12
startThreshold == 4
stopThreshold == 2

EmptyBlock == [empty |-> TRUE, energyDb |-> 0, conf |-> 0]
Block(e, c) == [empty |-> FALSE, energyDb |-> e, conf |-> c]

\* energies at the spike bound and above it; confidences below and at 0.60
EnergyDbs == {SPIKE_DB, SPIKE_DB + 5}
BlockConfidences == {HIGH_CONFIDENCE - 10, HIGH_CONFIDENCE}
Blocks == {EmptyBlock} \cup {Block(e, c) : e \in EnergyDbs, c \in BlockConfidences}

\* arguments of setMinDetectionDuration
MinDurations == {-ClockStep, 0, DEFAULT_MIN_DETECTION_DURATION_MS}

\* the detector as a call finds it
Detector ==
    [minDetectionDurationMs |-> minDetectionDurationMs_,
     hasTrainingData |-> hasTrainingData_,
     detectionStartTime |-> detectionStartTime_,
     isCurrentlyDetecting |-> isCurrentlyDetecting_,
     spikeTriggered |-> spikeTriggered_,
     spikeTime |-> spikeTime_,
     energyHistory |-> energyHistory_,
     energyHistoryIndex |-> energyHistoryIndex_,
     confidenceHistory |-> confidenceHistory_,
     confidenceHistoryIndex |-> confidenceHistoryIndex_]

\* void updateEnergyHistory(float energy)
UpdateEnergyHistory(d, energy) ==
    IF Len(d.energyHistory) < ENERGY_HISTORY_SIZE
    THEN [d EXCEPT !.energyHistory = Append(@, energy)]
    ELSE [d EXCEPT !.energyHistory[d.energyHistoryIndex + 1] = energy,
                   !.energyHistoryIndex = (@ + 1) % ENERGY_HISTORY_SIZE]

\* mutant: a full history is always overwritten in its first slot
UpdateConfidenceHistory_NoAdvance(d, isHigh) ==
    IF Len(d.confidenceHistory) < CONFIDENCE_HISTORY_SIZE
    THEN [d EXCEPT !.confidenceHistory = Append(@, isHigh)]
    ELSE [d EXCEPT !.confidenceHistory[d.confidenceHistoryIndex + 1] = isHigh]

\* void updateConfidenceHistory(bool isHigh)
UpdateConfidenceHistory(d, isHigh) ==
    IF Len(d.confidenceHistory) < CONFIDENCE_HISTORY_SIZE
    THEN [d EXCEPT !.confidenceHistory = Append(@, isHigh)]
    ELSE [d EXCEPT !.confidenceHistory[d.confidenceHistoryIndex + 1] = isHigh,
                   !.confidenceHistoryIndex = (@ + 1) % CONFIDENCE_HISTORY_SIZE]

\* int countHighConfidenceHits()
CountHighConfidenceHits(d) ==
    Cardinality({i \in 1..Len(d.confidenceHistory) : d.confidenceHistory[i]})

\* mutant: a lost detection does not clear isCurrentlyDetecting_
UpdateTemporalState_NoReset(d, t, instantDetection) ==
    IF instantDetection
    THEN LET d1 == IF ~d.isCurrentlyDetecting
                   THEN [d EXCEPT !.detectionStartTime = t,
                                  !.isCurrentlyDetecting = TRUE]
                   ELSE d
         IN [d |-> d1,
             ret |-> (t - d1.detectionStartTime >= d1.minDetectionDurationMs)]
    ELSE [d |-> d, ret |-> FALSE]

\* mutant: a new detection period keeps the start time of the previous one
UpdateTemporalState_KeepStart(d, t, instantDetection) ==
    IF instantDetection
    THEN LET d1 == IF ~d.isCurrentlyDetecting
                   THEN [d EXCEPT !.isCurrentlyDetecting = TRUE]
                   ELSE d
         IN [d |-> d1,
             ret |-> (t - d1.detectionStartTime >= d1.minDetectionDurationMs)]
    ELSE [d |-> [d EXCEPT !.isCurrentlyDetecting = FALSE], ret |-> FALSE]

\* mutant: the duration test is strict
UpdateTemporalState_Strict(d, t, instantDetection) ==
    IF instantDetection
    THEN LET d1 == IF ~d.isCurrentlyDetecting
                   THEN [d EXCEPT !.detectionStartTime = t,
                                  !.isCurrentlyDetecting = TRUE]
                   ELSE d
         IN [d |-> d1,
             ret |-> (t - d1.detectionStartTime > d1.minDetectionDurationMs)]
    ELSE [d |-> [d EXCEPT !.isCurrentlyDetecting = FALSE], ret |-> FALSE]

\* bool updateTemporalState(bool instantDetection), called at time t;
\* the result is [d, ret]: the detector afterwards and the value returned
UpdateTemporalState(d, t, instantDetection) ==
    IF instantDetection
    THEN LET d1 == IF ~d.isCurrentlyDetecting
                   THEN [d EXCEPT !.detectionStartTime = t,
                                  !.isCurrentlyDetecting = TRUE]
                   ELSE d
         IN [d |-> d1,
             ret |-> (t - d1.detectionStartTime >= d1.minDetectionDurationMs)]
    ELSE [d |-> [d EXCEPT !.isCurrentlyDetecting = FALSE], ret |-> FALSE]

\* what analyze reports when it returns before the scoring
Unscored(d, ret) ==
    [d |-> d, confidence |-> 0, isWhiteNoise |-> ret, scored |-> FALSE,
     spikeValid |-> FALSE, highHits |-> 0, instantDetection |-> FALSE]

\* mutant: every block above the spike bound records its time
ArmSpike_Refresh(d, t, energyDb) ==
    IF energyDb > SPIKE_DB
    THEN [d EXCEPT !.spikeTriggered = TRUE, !.spikeTime = t]
    ELSE d

\* analyze lines 244-250: if (spikeDetected && !spikeTriggered_)
ArmSpike(d, t, energyDb) ==
    IF energyDb > SPIKE_DB /\ ~d.spikeTriggered
    THEN [d EXCEPT !.spikeTriggered = TRUE, !.spikeTime = t]
    ELSE d

\* analyze lines 253-258: spikeValid
SpikeValid(d, t) == d.spikeTriggered /\ t - d.spikeTime < SPIKE_WINDOW_MS

\* analyze lines 259-262: the spike expired and there is no streak
ExpireSpike(d, t) ==
    IF d.spikeTriggered /\ ~SpikeValid(d, t) /\ ~d.isCurrentlyDetecting
    THEN [d EXCEPT !.spikeTriggered = FALSE]
    ELSE d

\* mutant: a streak begins without a valid spike
InstantDetection_NoSpike(d, spikeValid, highHits) ==
    IF d.isCurrentlyDetecting
    THEN highHits >= stopThreshold
    ELSE highHits >= startThreshold

\* mutant: a streak continues only while the spike is valid
InstantDetection_NeedsSpike(d, spikeValid, highHits) ==
    IF d.isCurrentlyDetecting
    THEN spikeValid /\ highHits >= stopThreshold
    ELSE spikeValid /\ highHits >= startThreshold

\* analyze lines 305-314: instantDetection
InstantDetection(d, spikeValid, highHits) ==
    IF d.isCurrentlyDetecting
    THEN highHits >= stopThreshold
    ELSE spikeValid /\ highHits >= startThreshold

\* analyze lines 316-319: reset spike if detection is lost
ResetSpike(d, spikeValid, instantDetection) ==
    IF ~instantDetection /\ ~d.isCurrentlyDetecting /\ ~spikeValid
    THEN [d EXCEPT !.spikeTriggered = FALSE]
    ELSE d

\* analyze lines 225-324, for a block that is scored
Score(d, t, b) ==
    LET d1 == UpdateEnergyHistory(d, b.energyDb)
        d2 == ArmSpike(d1, t, b.energyDb)
        spikeValid == SpikeValid(d2, t)
        d3 == ExpireSpike(d2, t)
        d4 == UpdateConfidenceHistory(d3, b.conf >= HIGH_CONFIDENCE)
        highHits == CountHighConfidenceHits(d4)
        instantDetection == InstantDetection(d4, spikeValid, highHits)
        d5 == ResetSpike(d4, spikeValid, instantDetection)
        r == UpdateTemporalState(d5, t, instantDetection)
    IN [d |-> r.d, confidence |-> b.conf, isWhiteNoise |-> r.ret,
        scored |-> TRUE, spikeValid |-> spikeValid, highHits |-> highHits,
        instantDetection |-> instantDetection]

\* mutant: an empty block leaves the streak alone and reports its verdict
AnalyzeResult_EmptyHolds(d, t, b) ==
    IF b.empty
    THEN Unscored(d, UpdateTemporalState(d, t, d.isCurrentlyDetecting).ret)
    ELSE IF ~d.hasTrainingData
         THEN Unscored(d, FALSE)
         ELSE Score(d, t, b)

\* DetectionResult analyze(const float* samples, size_t count) at time t
AnalyzeResult(d, t, b) ==
    IF b.empty
    THEN Unscored(UpdateTemporalState(d, t, FALSE).d, FALSE)
    ELSE IF ~d.hasTrainingData
         THEN Unscored(d, FALSE)
         ELSE Score(d, t, b)

\* the detector d becomes the state
Install(d) ==
    /\ minDetectionDurationMs_' = d.minDetectionDurationMs
    /\ hasTrainingData_' = d.hasTrainingData
    /\ detectionStartTime_' = d.detectionStartTime
    /\ isCurrentlyDetecting_' = d.isCurrentlyDetecting
    /\ spikeTriggered_' = d.spikeTriggered
    /\ spikeTime_' = d.spikeTime
    /\ energyHistory_' = d.energyHistory
    /\ energyHistoryIndex_' = d.energyHistoryIndex
    /\ confidenceHistory_' = d.confidenceHistory
    /\ confidenceHistoryIndex_' = d.confidenceHistoryIndex

\* held: the number (up to MaxCount) of latest consecutive analyze calls whose
\* instant detection was true, and the time of the first of them
NotHeld == [len |-> 0, since |-> 0]

HeldAfter(r) ==
    IF r.instantDetection
    THEN IF held.len = 0
         THEN [len |-> 1, since |-> now]
         ELSE [held EXCEPT !.len = Min(@ + 1, MaxCount)]
    ELSE NotHeld

NoCall ==
    [op |-> "init", block |-> EmptyBlock, at |-> 0, confidence |-> 0,
     isWhiteNoise |-> FALSE, scored |-> FALSE, spikeValid |-> FALSE,
     highHits |-> 0, instantDetection |-> FALSE,
     wasDetecting |-> FALSE, minDuration |-> 0,
     wasArmed |-> FALSE, wasSpikeTime |-> 0, wasWhite |-> FALSE]

\* past: white is the isWhiteNoise the latest analyze call returned; streaks
\* is the number (up to MaxCount) of times a call with instant detection
\* followed one without; loud holds the time of the latest call given a block
\* above the spike bound; loudAtStart is loud as it was after the first call
\* of the latest run of calls with instant detection
NoPast == [white |-> FALSE, streaks |-> 0, loud |-> {}, loudAtStart |-> {}]

PastAfter(r, b) ==
    LET loud == IF ~b.empty /\ b.energyDb > SPIKE_DB THEN {now} ELSE past.loud
        begins == r.instantDetection /\ held.len = 0
    IN [white |-> r.isWhiteNoise,
        streaks |-> IF begins THEN Min(past.streaks + 1, MaxCount)
                    ELSE past.streaks,
        loud |-> loud,
        loudAtStart |-> IF begins THEN loud ELSE past.loudAtStart]

\* analyze(samples, count) is called with block b at time now
AnalyzeCall(b) ==
    /\ LET r == AnalyzeResult(Detector, now, b)
       IN /\ Install(r.d)
          /\ held' = HeldAfter(r)
          /\ detOp' = [op |-> "analyze", block |-> b, at |-> now,
                       confidence |-> r.confidence,
                       isWhiteNoise |-> r.isWhiteNoise,
                       scored |-> r.scored,
                       spikeValid |-> r.spikeValid,
                       highHits |-> r.highHits,
                       instantDetection |-> r.instantDetection,
                       wasDetecting |-> isCurrentlyDetecting_,
                       minDuration |-> minDetectionDurationMs_,
                       wasArmed |-> spikeTriggered_,
                       wasSpikeTime |-> spikeTime_,
                       wasWhite |-> past.white]
          /\ past' = PastAfter(r, b)
    /\ blocks' = blocks + 1
    /\ UNCHANGED now
    /\ UNCHANGED <<smVars, scoreVars, sideVars>>

Analyze(b) ==
    /\ blocks < MaxBlocks
    /\ AnalyzeCall(b)
    /\ UNCHANGED <<histVars, trainVars>>

\* analyze, with the blocks that reach the scoring logged; one call that does
\* not reach the scoring is followed
AnalyzeLogged(b) ==
    /\ AnalyzeResult(Detector, now, b).scored \/ blocks = Len(scoredLog)
    /\ Len(scoredLog) < MaxScored
    /\ AnalyzeCall(b)
    /\ scoredLog' = IF AnalyzeResult(Detector, now, b).scored
                    THEN Append(scoredLog, b)
                    ELSE scoredLog
    /\ UNCHANGED trainVars

\* the value setMinDetectionDuration(durationMs) stores
ClampMinDuration(durationMs) == IF durationMs > 0 THEN durationMs ELSE 0

\* void setMinDetectionDuration(int durationMs)
SetMinDetectionDuration(durationMs) ==
    /\ Install([Detector EXCEPT
                  !.minDetectionDurationMs = ClampMinDuration(durationMs)])
    /\ detOp' = [NoCall EXCEPT !.op = "setMinDetectionDuration", !.at = now]
    /\ UNCHANGED <<now, held, blocks, past>>
    /\ UNCHANGED <<smVars, histVars, scoreVars, trainVars, sideVars>>

\* the steady clock advances
Tick ==
    /\ now + ClockStep <= MaxTicks * ClockStep
    /\ now' = now + ClockStep
    /\ UNCHANGED <<minDetectionDurationMs_, hasTrainingData_,
                   detectionStartTime_, isCurrentlyDetecting_,
                   spikeTriggered_, spikeTime_, energyHistory_,
                   energyHistoryIndex_, confidenceHistory_,
                   confidenceHistoryIndex_, held, blocks, past>>
    /\ detOp' = [NoCall EXCEPT !.op = "tick", !.at = now']
    /\ UNCHANGED <<smVars, histVars, scoreVars, trainVars, sideVars>>

\* FFTNoiseDetector(sampleRate, fftSize)
Constructed ==
    [minDetectionDurationMs |-> DEFAULT_MIN_DETECTION_DURATION_MS,
     hasTrainingData |-> FALSE,
     detectionStartTime |-> 0,
     isCurrentlyDetecting |-> FALSE,
     spikeTriggered |-> FALSE,
     spikeTime |-> 0,
     energyHistory |-> <<>>,
     energyHistoryIndex |-> 0,
     confidenceHistory |-> <<>>,
     confidenceHistoryIndex |-> 0]

\* Detector d after analyze was called, at time 0, on k >= 0 blocks that are
\* not above the spike bound and whose confidence is high where flags says so:
\* no spike is armed, so no streak begins.
RECURSIVE Quiet(_, _, _)
Quiet(d, flags, k) ==
    IF k = 0 THEN d
    ELSE AnalyzeResult(Quiet(d, flags, k - 1), 0,
                       Block(SPIKE_DB, IF flags[k] THEN HIGH_CONFIDENCE
                                       ELSE HIGH_CONFIDENCE - 10)).d

\* flags of CONFIDENCE_HISTORY_SIZE quiet blocks, the 2nd to 4th of them high
ThreeHigh == [i \in 1..CONFIDENCE_HISTORY_SIZE |-> i \in 2..4]

\* a detector holding a profile after CONFIDENCE_HISTORY_SIZE quiet blocks
Warm ==
    Quiet([Constructed EXCEPT !.hasTrainingData = TRUE], ThreeHigh,
          CONFIDENCE_HISTORY_SIZE)

\* Warm after one more block, at time 0, above the spike bound and with high
\* confidence: the spike is armed and a streak has just begun
Streaking ==
    AnalyzeResult(Warm, 0, Block(SPIKE_DB + 5, HIGH_CONFIDENCE)).d

\* The detectors a behaviour starts from: just constructed; holding a
\* profile (hasTrainingData_ set by finishTraining or loadTrainingData) with
\* nothing analysed yet; the latter after CONFIDENCE_HISTORY_SIZE quiet
\* blocks, so that both histories are full and wrap within MaxBlocks calls;
\* and that one with a streak just begun, so that a streak can also end by
\* highHits < stopThreshold within MaxBlocks calls.
InitialDetectors ==
    { Constructed,
      [Constructed EXCEPT !.hasTrainingData = TRUE],
      Warm,
      Streaking }

\* the observers of the calls that led to detector d of InitialDetectors
HeldAtStart(d) ==
    IF d = Streaking THEN [len |-> 1, since |-> 0] ELSE NotHeld

PastAtStart(d) ==
    IF d = Streaking
    THEN [white |-> FALSE, streaks |-> 1, loud |-> {0}, loudAtStart |-> {0}]
    ELSE NoPast

\* a behaviour starts with detector d
DetStartsAs(d) ==
    /\ minDetectionDurationMs_ = d.minDetectionDurationMs
    /\ hasTrainingData_ = d.hasTrainingData
    /\ detectionStartTime_ = d.detectionStartTime
    /\ isCurrentlyDetecting_ = d.isCurrentlyDetecting
    /\ spikeTriggered_ = d.spikeTriggered
    /\ spikeTime_ = d.spikeTime
    /\ energyHistory_ = d.energyHistory
    /\ energyHistoryIndex_ = d.energyHistoryIndex
    /\ confidenceHistory_ = d.confidenceHistory
    /\ confidenceHistoryIndex_ = d.confidenceHistoryIndex
    /\ now = 0
    /\ detOp = NoCall
    /\ held = HeldAtStart(d)
    /\ blocks = 0
    /\ past = PastAtStart(d)
    /\ scoredLog = <<>>

DetNext ==
    \/ \E b \in Blocks : Analyze(b)
    \/ \E ms \in MinDurations : SetMinDetectionDuration(ms)
    \/ Tick

(***************************************************************************)
(* The energy-ratio score of analyze.  ratio is spectral.energy /          *)
(* trainingData_.energyThreshold in hundredths; thresholdSet is            *)
(* (trainingData_.energyThreshold > EPSILON); energyRatio is kept in       *)
(* units of 1 / ScoreOne, in which the arithmetic below is exact.          *)
(***************************************************************************)
\* the float 1.0f of energyRatio
ScoreOne == 35000

\* float energyRatio of analyze, lines 268-278
EnergyRatio(thresholdSet, ratio) ==
    IF thresholdSet /\ ratio >= 30 /\ ratio <= 500
    THEN IF ratio < 100
         THEN ((ratio - 30) * ScoreOne) \div 70
         ELSE Min(ScoreOne, (80 * ScoreOne) \div 100
                               + (ratio * 4 * ScoreOne) \div 10000)
    ELSE 0

Ratios == 0..MaxRatio

RatioCall(thresholdSet, ratio) ==
    [thresholdSet |-> thresholdSet, ratio |-> ratio,
     energyRatio |-> EnergyRatio(thresholdSet, ratio)]

\* the first computation
ScoreStartsAs(thresholdSet, ratio) ==
    /\ ratioCall = RatioCall(thresholdSet, ratio)
    /\ ratioBefore = RatioCall(thresholdSet, ratio)

\* a further block is scored, its ratio above the latest one
ScoreEnergy(thresholdSet, ratio) ==
    /\ ratio > ratioCall.ratio
    /\ ratio <= ratioCall.ratio + MaxRatioStep
    /\ ratioBefore' = ratioCall
    /\ ratioCall' = RatioCall(thresholdSet, ratio)
    /\ UNCHANGED <<smVars, detVars, histVars, trainVars, sideVars>>

(***************************************************************************)
(* FFTNoiseDetector: training and persistence.                             *)
(*                                                                         *)
(* Fixed point, rounding down: magnitudes, the entries of a profile,       *)
(* flatness, sensitivity, the correlation threshold and the coefficient of *)
(* variation are in thousandths; energies are in millionths.  A sample is  *)
(* what addTrainingSample is given together with what the spectral         *)
(* analysis makes of it.  trainingData_.sampleRate and trainedAt are not   *)
(* followed.                                                               *)
(***************************************************************************)
\* the float 1.0f, in thousandths
Milli == 1000
\* the bound of "result.energy > 0.00001f", in millionths
ACCEPT_ENERGY == 10
\* the bound of "trainingSpectra_.size() < 5"
MIN_TRAINING_SAMPLES == 5
\* the 0.000001f of std::max(0.000001f, energyMean), in millionths
MIN_ENERGY_THRESHOLD == 1
\* the bound of "header.profileSize > 100000"
MAX_PROFILE_SIZE == 100000
FORMAT_VERSION == 1
\* sensitivity_(0.7f), in thousandths
DEFAULT_SENSITIVITY == 700

Max(a, b) == IF a >= b THEN a ELSE b

RECURSIVE SumSeq(_)
SumSeq(seq) == IF seq = <<>> THEN 0 ELSE Head(seq) + SumSeq(Tail(seq))

RECURSIVE MinOf(_)
MinOf(seq) ==
    IF Len(seq) = 1 THEN Head(seq) ELSE Min(Head(seq), MinOf(Tail(seq)))

\* std::accumulate(...) / size
Mean(seq) == SumSeq(seq) \div Len(seq)

\* std::sqrt on the fixed point: the integer square root, by Newton's method
RECURSIVE Newton(_, _)
Newton(n, x) ==
    LET y == (x + n \div x) \div 2
    IN IF y >= x THEN x ELSE Newton(n, y)

Sqrt(n) == IF n = 0 THEN 0 ELSE Newton(n, n)

\* void normalizeVector(std::vector<float>& v); EPSILON is below the fixed point
NormalizeVector(v) ==
    LET norm == Sqrt(SumSeq([i \in 1..Len(v) |-> v[i] * v[i]]))
    IN IF norm > 0
       THEN [i \in 1..Len(v) |-> (v[i] * Milli) \div norm]
       ELSE v

\* float computeStdDev(const std::vector<float>& values, float mean)
ComputeStdDev(values, mean) ==
    IF values = <<>> THEN 0
    ELSE Sqrt(SumSeq([i \in 1..Len(values) |->
                         (values[i] - mean) * (values[i] - mean)])
              \div Len(values))

\* std::vector<float>::resize(n, 0.0f): entries already there keep their value
Resize(v, n) == [i \in 1..n |-> IF i <= Len(v) THEN v[i] ELSE 0]

\* finishTraining lines 131-135: profile[i] += spectrum[i] for every spectrum
RECURSIVE Accumulate(_, _)
Accumulate(profile, spectra) ==
    IF spectra = <<>> THEN profile
    ELSE Accumulate([i \in 1..Len(profile) |->
                        profile[i] + (IF i <= Len(Head(spectra))
                                      THEN Head(spectra)[i] ELSE 0)],
                    Tail(spectra))

NullSample == [null |-> TRUE, magnitudes |-> <<>>, energy |-> 0, flatness |-> 0]
Sample(m, e, f) == [null |-> FALSE, magnitudes |-> m, energy |-> e, flatness |-> f]

\* the k-th block of a recording above the energy bound: two kinds in turn,
\* the second of them tonal (flatness 0.05)
Recorded(k) ==
    IF k % 2 = 1
    THEN Sample(<<4 * Milli, 3 * Milli>>, 5 * ACCEPT_ENERGY, 600)
    ELSE Sample(<<3 * Milli, 4 * Milli>>, 2 * ACCEPT_ENERGY, 50)

\* what addTrainingSample may be given: no block, a block at the energy
\* bound, the next block of the recording; k counts the samples accepted in
\* the session and the sessions, so that a second session starts with the
\* other kind
TrainingSamples(k) ==
    {NullSample,
     Sample(<<3 * Milli, 4 * Milli>>, ACCEPT_ENERGY, 500),
     Recorded(k)}

\* arguments of setSensitivity
Sensitivities == {500, Milli + 100}

\* A training data file as loadTrainingData finds it: whether it opens, whether
\* its magic is MAGIC, its header fields, and the profile values it holds
GoodFile ==
    [opens |-> TRUE, magic |-> TRUE, version |-> FORMAT_VERSION,
     profileSize |-> 2, data |-> <<600, 800>>,
     energyThreshold |-> 3 * ACCEPT_ENERGY, correlationThreshold |-> 490,
     spectralFlatnessThreshold |-> 450]

Files ==
    {GoodFile,
     [GoodFile EXCEPT !.opens = FALSE],
     [GoodFile EXCEPT !.magic = FALSE],
     [GoodFile EXCEPT !.version = FORMAT_VERSION + 1],
     [GoodFile EXCEPT !.profileSize = 0, !.data = <<>>],
     [GoodFile EXCEPT !.profileSize = MAX_PROFILE_SIZE + 1],
     [GoodFile EXCEPT !.data = <<600>>]}

\* the training side of the detector as a call finds it
Trainer ==
    [sensitivity |-> sensitivity_,
     training |-> training_,
     trainingSpectra |-> trainingSpectra_,
     trainingEnergies |-> trainingEnergies_,
     trainingFlatnesses |-> trainingFlatnesses_,
     trainingData |-> trainingData_,
     spectralFlatnessThreshold |-> spectralFlatnessThreshold_,
     energyMinThreshold |-> energyMinThreshold_,
     energyVarianceThreshold |-> energyVarianceThreshold_,
     hasTrainingData |-> hasTrainingData_]

\* FFTNoiseDetector(sampleRate, fftSize): trainingData_ is default-initialised,
\* which leaves its two floats indeterminate; g is the value they happen to hold
ConstructedTrainer(g) ==
    [sensitivity |-> DEFAULT_SENSITIVITY,
     training |-> FALSE,
     trainingSpectra |-> <<>>,
     trainingEnergies |-> <<>>,
     trainingFlatnesses |-> <<>>,
     trainingData |-> [spectralProfile |-> <<>>, energyThreshold |-> g,
                       correlationThreshold |-> g],
     spectralFlatnessThreshold |-> 300,
     energyMinThreshold |-> 0,
     energyVarianceThreshold |-> 500,
     hasTrainingData |-> FALSE]

\* values an indeterminate float may hold
Indeterminate == {0, Milli}

\* void startTraining()
StartTrainingOf(t) ==
    [t EXCEPT !.training = TRUE,
              !.trainingSpectra = <<>>,
              !.trainingEnergies = <<>>,
              !.trainingFlatnesses = <<>>]

\* addTrainingSample rejecting tonal blocks (flatness below 0.1)
AddTrainingSampleTo_Flat(t, sample) ==
    IF ~t.training \/ sample.null
    THEN t
    ELSE IF sample.energy > ACCEPT_ENERGY /\ sample.flatness >= 100
         THEN [t EXCEPT !.trainingSpectra = Append(@, sample.magnitudes),
                        !.trainingEnergies = Append(@, sample.energy),
                        !.trainingFlatnesses = Append(@, sample.flatness)]
         ELSE t

\* void addTrainingSample(const float* samples, size_t count)
AddTrainingSampleTo(t, sample) ==
    IF ~t.training \/ sample.null
    THEN t
    ELSE IF sample.energy > ACCEPT_ENERGY
         THEN [t EXCEPT !.trainingSpectra = Append(@, sample.magnitudes),
                        !.trainingEnergies = Append(@, sample.energy),
                        !.trainingFlatnesses = Append(@, sample.flatness)]
         ELSE t

\* finishTraining lines 127-187: the profile and the thresholds are computed
Learn(t) ==
    LET profileSize == Len(t.trainingSpectra[1])
        summed == Accumulate(Resize(t.trainingData.spectralProfile, profileSize),
                             t.trainingSpectra)
        numSamples == Len(t.trainingSpectra)
        averaged == [i \in 1..Len(summed) |-> summed[i] \div numSamples]
        energyMean == Mean(t.trainingEnergies)
        energyStdDev == ComputeStdDev(t.trainingEnergies, energyMean)
    IN [t EXCEPT
          !.trainingData =
             [spectralProfile |-> NormalizeVector(averaged),
              energyThreshold |-> Max(MIN_ENERGY_THRESHOLD, energyMean),
              correlationThreshold |->
                 400 + ((Milli - t.sensitivity) * 3) \div 10],
          !.energyMinThreshold = (MinOf(t.trainingEnergies) * 3) \div 10,
          !.energyVarianceThreshold = (energyStdDev * Milli) \div energyMean,
          !.spectralFlatnessThreshold = Mean(t.trainingFlatnesses),
          !.hasTrainingData = TRUE,
          !.trainingSpectra = <<>>,
          !.trainingEnergies = <<>>,
          !.trainingFlatnesses = <<>>]

\* bool finishTraining(); the result is [t, ret]
FinishTrainingOf(t) ==
    IF ~t.training
    THEN [t |-> t, ret |-> FALSE]
    ELSE LET t1 == [t EXCEPT !.training = FALSE]
         IN IF t1.trainingSpectra = <<>>
            THEN [t |-> t1, ret |-> FALSE]
            ELSE IF Len(t1.trainingSpectra) < MIN_TRAINING_SAMPLES
                 THEN [t |-> t1, ret |-> FALSE]
                 ELSE [t |-> Learn(t1), ret |-> TRUE]

\* loadTrainingData lines 408-412: the profile is resized, then read from the
\* file; a short file leaves the remaining entries as the resize left them
ReadProfile(profile, file) ==
    [i \in 1..file.profileSize |->
        IF i <= Len(file.data) THEN file.data[i]
        ELSE IF i <= Len(profile) THEN profile[i] ELSE 0]

\* loadTrainingData testing the version after the profile is read
LoadTrainingDataOf_LateVersion(t, file) ==
    IF ~file.opens \/ ~file.magic
       \/ file.profileSize = 0 \/ file.profileSize > MAX_PROFILE_SIZE
    THEN [t |-> t, ret |-> FALSE]
    ELSE IF file.version # FORMAT_VERSION
         THEN [t |-> [t EXCEPT !.trainingData.spectralProfile =
                                  ReadProfile(@, file)],
               ret |-> FALSE]
         ELSE IF Len(file.data) < file.profileSize
         THEN [t |-> [t EXCEPT !.trainingData.spectralProfile =
                                  ReadProfile(@, file)],
               ret |-> FALSE]
         ELSE [t |-> [t EXCEPT
                        !.trainingData.spectralProfile = ReadProfile(@, file),
                        !.trainingData.energyThreshold = file.energyThreshold,
                        !.trainingData.correlationThreshold =
                           file.correlationThreshold,
                        !.spectralFlatnessThreshold =
                           file.spectralFlatnessThreshold,
                        !.hasTrainingData = TRUE],
               ret |-> TRUE]

\* loadTrainingData marking the detector trained before the profile is read
LoadTrainingDataOf_EarlyFlag(t, file) ==
    IF ~file.opens \/ ~file.magic \/ file.version # FORMAT_VERSION
       \/ file.profileSize = 0 \/ file.profileSize > MAX_PROFILE_SIZE
    THEN [t |-> t, ret |-> FALSE]
    ELSE [t |-> [t EXCEPT !.trainingData.spectralProfile = ReadProfile(@, file),
                          !.hasTrainingData = TRUE],
          ret |-> Len(file.data) >= file.profileSize]

\* bool loadTrainingData(path); the result is [t, ret]
LoadTrainingDataOf(t, file) ==
    IF ~file.opens THEN [t |-> t, ret |-> FALSE]
    ELSE IF ~file.magic THEN [t |-> t, ret |-> FALSE]
    ELSE IF file.version # FORMAT_VERSION THEN [t |-> t, ret |-> FALSE]
    ELSE IF file.profileSize = 0 \/ file.profileSize > MAX_PROFILE_SIZE
         THEN [t |-> t, ret |-> FALSE]
    ELSE LET t1 == [t EXCEPT !.trainingData.spectralProfile =
                                 ReadProfile(@, file)]
         IN IF Len(file.data) < file.profileSize
            THEN [t |-> t1, ret |-> FALSE]
            ELSE [t |-> [t1 EXCEPT
                           !.trainingData.energyThreshold = file.energyThreshold,
                           !.trainingData.correlationThreshold =
                              file.correlationThreshold,
                           !.spectralFlatnessThreshold =
                              file.spectralFlatnessThreshold,
                           !.hasTrainingData = TRUE],
                  ret |-> TRUE]

\* void setSensitivity(float sensitivity)
SetSensitivityOf(t, sensitivity) ==
    LET clamped == Max(0, Min(sensitivity, Milli))
    IN IF t.hasTrainingData
       THEN [t EXCEPT !.sensitivity = clamped,
                      !.trainingData.correlationThreshold =
                         300 + ((Milli - clamped) * 5) \div 10]
       ELSE [t EXCEPT !.sensitivity = clamped]

\* the training side t becomes the state; analyze's own state stays
TrainInstall(t) ==
    /\ sensitivity_' = t.sensitivity
    /\ training_' = t.training
    /\ trainingSpectra_' = t.trainingSpectra
    /\ trainingEnergies_' = t.trainingEnergies
    /\ trainingFlatnesses_' = t.trainingFlatnesses
    /\ trainingData_' = t.trainingData
    /\ spectralFlatnessThreshold_' = t.spectralFlatnessThreshold
    /\ energyMinThreshold_' = t.energyMinThreshold
    /\ energyVarianceThreshold_' = t.energyVarianceThreshold
    /\ hasTrainingData_' = t.hasTrainingData
    /\ UNCHANGED <<minDetectionDurationMs_, detectionStartTime_,
                   isCurrentlyDetecting_, spikeTriggered_, spikeTime_,
                   energyHistory_, energyHistoryIndex_, confidenceHistory_,
                   confidenceHistoryIndex_, now, held, blocks, past>>
    /\ UNCHANGED <<smVars, histVars, scoreVars, ptVars>>

\* trainOp: the call and what it returned; for addTrainingSample,
\* finishTraining, saveTrainingData and loadTrainingData also the sample or
\* file it was given or what happened to the file it wrote, the training side
\* and the rest of the detector it found, and the samples accepted until then
NoTrainCall ==
    [op |-> "init", ret |-> FALSE, before |-> ConstructedTrainer(0),
     accepted |-> <<>>, sample |-> NullSample, file |-> GoodFile,
     io |-> "ok", gating |-> Constructed]

TrainCall(op, ret) == [NoTrainCall EXCEPT !.op = op, !.ret = ret]

ObservedCall(op, ret) ==
    [TrainCall(op, ret) EXCEPT !.before = Trainer, !.accepted = accepted,
                               !.gating = Detector]

\* the training side of a detector that starts as d: as constructed, or as a
\* load of GoodFile leaves it
TrainerOf(d, g) ==
    IF d.hasTrainingData
    THEN LoadTrainingDataOf(ConstructedTrainer(g), GoodFile).t
    ELSE ConstructedTrainer(g)

\* a behaviour starts with the training side t, its profile produced by from
TrainStartsFrom(t, from) ==
    /\ sensitivity_ = t.sensitivity
    /\ training_ = t.training
    /\ trainingSpectra_ = t.trainingSpectra
    /\ trainingEnergies_ = t.trainingEnergies
    /\ trainingFlatnesses_ = t.trainingFlatnesses
    /\ trainingData_ = t.trainingData
    /\ spectralFlatnessThreshold_ = t.spectralFlatnessThreshold
    /\ energyMinThreshold_ = t.energyMinThreshold
    /\ energyVarianceThreshold_ = t.energyVarianceThreshold
    /\ trainOp = NoTrainCall
    /\ accepted = <<>>
    /\ everTrained = t.hasTrainingData
    /\ trainings = 0
    /\ profileFrom = from

\* a behaviour starts with the training side t, as constructed or loaded
TrainStartsAs(t) ==
    TrainStartsFrom(t, IF t.hasTrainingData THEN "loadTrainingData" ELSE "none")

\* void startTraining()
DetectorStartTraining ==
    /\ trainings < MaxTrainings
    /\ TrainInstall(StartTrainingOf(Trainer))
    /\ trainOp' = TrainCall("startTraining", FALSE)
    /\ detOp' = [NoCall EXCEPT !.op = "startTraining", !.at = now]
    /\ accepted' = <<>>
    /\ trainings' = trainings + 1
    /\ UNCHANGED <<everTrained, profileFrom>>
    /\ UNCHANGED <<persistVars, concVars, hostVars>>

\* void addTrainingSample(const float* samples, size_t count)
AddTrainingSample(sample) ==
    /\ Len(trainingSpectra_) < MaxSamples
    /\ TrainInstall(AddTrainingSampleTo(Trainer, sample))
    /\ trainOp' = [ObservedCall("addTrainingSample", FALSE)
                      EXCEPT !.sample = sample]
    /\ detOp' = [NoCall EXCEPT !.op = "addTrainingSample", !.at = now]
    /\ accepted' = IF Len(AddTrainingSampleTo(Trainer, sample).trainingSpectra)
                        > Len(trainingSpectra_)
                   THEN Append(accepted, sample)
                   ELSE accepted
    /\ UNCHANGED <<everTrained, trainings, profileFrom>>
    /\ UNCHANGED <<persistVars, concVars, hostVars>>

\* bool finishTraining()
FinishTraining ==
    /\ TrainInstall(FinishTrainingOf(Trainer).t)
    /\ trainOp' = ObservedCall("finishTraining", FinishTrainingOf(Trainer).ret)
    /\ detOp' = [NoCall EXCEPT !.op = "finishTraining", !.at = now]
    /\ accepted' = <<>>
    /\ everTrained' = (everTrained \/ FinishTrainingOf(Trainer).ret)
    /\ profileFrom' = IF FinishTrainingOf(Trainer).ret
                      THEN "finishTraining" ELSE profileFrom
    /\ UNCHANGED trainings
    /\ UNCHANGED <<persistVars, concVars, hostVars>>

\* bool loadTrainingData(const std::filesystem::path& path)
LoadTrainingData(file) ==
    /\ TrainInstall(LoadTrainingDataOf(Trainer, file).t)
    /\ trainOp' = TrainCall("loadTrainingData",
                            LoadTrainingDataOf(Trainer, file).ret)
    /\ detOp' = [NoCall EXCEPT !.op = "loadTrainingData", !.at = now]
    /\ everTrained' = (everTrained \/ LoadTrainingDataOf(Trainer, file).ret)
    /\ profileFrom' = IF LoadTrainingDataOf(Trainer, file).ret
                      THEN "loadTrainingData" ELSE profileFrom
    /\ UNCHANGED <<accepted, trainings>>
    /\ UNCHANGED <<persistVars, concVars, hostVars>>

\* void setSensitivity(float sensitivity)
SetSensitivity(sensitivity) ==
    /\ TrainInstall(SetSensitivityOf(Trainer, sensitivity))
    /\ trainOp' = TrainCall("setSensitivity", FALSE)
    /\ detOp' = [NoCall EXCEPT !.op = "setSensitivity", !.at = now]
    /\ UNCHANGED <<accepted, everTrained, trainings, profileFrom>>
    /\ UNCHANGED <<persistVars, concVars, hostVars>>

\* no block, and a loud block that matches a profile
TrainBlocks == {EmptyBlock, Block(SPIKE_DB + 5, HIGH_CONFIDENCE)}

\* analyze, between the calls of the training
AnalyzeBetween(b) ==
    /\ blocks < MaxTrainBlocks
    /\ AnalyzeCall(b)
    /\ UNCHANGED <<histVars, trainVars>>

(***************************************************************************)
(* FFTNoiseDetector: saveTrainingData, and loadTrainingData of what it     *)
(* wrote.  A file is the record loadTrainingData reads: floats are written *)
(* and read as their bytes.  header.sampleRate, fftSize and timestamp are  *)
(* not followed.                                                           *)
(***************************************************************************)
\* no file at the path
NoFile == [GoodFile EXCEPT !.opens = FALSE]

\* saveTrainingData writing the two thresholds in each other's place
FileOf_Swapped(t) ==
    [opens |-> TRUE, magic |-> TRUE, version |-> FORMAT_VERSION,
     profileSize |-> Len(t.trainingData.spectralProfile),
     data |-> t.trainingData.spectralProfile,
     energyThreshold |-> t.trainingData.correlationThreshold,
     correlationThreshold |-> t.trainingData.energyThreshold,
     spectralFlatnessThreshold |-> t.spectralFlatnessThreshold]

\* saveTrainingData lines 343-365: the header and the profile, as written;
\* the size of a profile is below 2^32, which the cast to uint32_t keeps
FileOf(t) ==
    [opens |-> TRUE, magic |-> TRUE, version |-> FORMAT_VERSION,
     profileSize |-> Len(t.trainingData.spectralProfile),
     data |-> t.trainingData.spectralProfile,
     energyThreshold |-> t.trainingData.energyThreshold,
     correlationThreshold |-> t.trainingData.correlationThreshold,
     spectralFlatnessThreshold |-> t.spectralFlatnessThreshold]

\* a file whose last value was not written
CutShort(file) ==
    [file EXCEPT !.data = SubSeq(@, 1, Len(@) - 1)]

\* what happens to the file: it is written, it cannot be opened, a write fails
IoOutcomes == {"ok", "open fails", "write fails"}

\* bool saveTrainingData(path), the file at path being old; the result is
\* [ret, file], the detector itself is not written
SaveTrainingDataOf(t, io, old) ==
    IF ~t.hasTrainingData THEN [ret |-> FALSE, file |-> old]
    ELSE IF io = "open fails" THEN [ret |-> FALSE, file |-> old]
    ELSE IF io = "write fails"
         THEN [ret |-> FALSE, file |-> CutShort(FileOf(t))]
         ELSE [ret |-> TRUE, file |-> FileOf(t)]

\* the training side after startTraining and the first n blocks of a recording
RECURSIVE Collected(_, _)
Collected(t, n) ==
    IF n = 0 THEN StartTrainingOf(t)
    ELSE AddTrainingSampleTo(Collected(t, n - 1), Recorded(n))

\* detectors to save and load with: constructed; loaded; trained
Persisting ==
    {[t |-> ConstructedTrainer(g), from |-> "none"] : g \in Indeterminate}
    \cup
    {[t |-> LoadTrainingDataOf(ConstructedTrainer(0), GoodFile).t,
      from |-> "loadTrainingData"],
     [t |-> FinishTrainingOf(
               Collected(ConstructedTrainer(0), MIN_TRAINING_SAMPLES)).t,
      from |-> "finishTraining"]}

\* saved: whether the file at the path is what a saveTrainingData that
\* returned true wrote, and the profile and thresholds held at that call
NotSaved == [valid |-> FALSE, trainingData |-> ConstructedTrainer(0).trainingData]

\* a behaviour starts with file at the path
DiskStartsAs(file) ==
    /\ disk = file
    /\ saved = NotSaved
    /\ calls = 0

\* bool saveTrainingData(const std::filesystem::path& path)
SaveTrainingData(io) ==
    /\ calls < MaxCalls
    /\ disk' = SaveTrainingDataOf(Trainer, io, disk).file
    /\ saved' = IF SaveTrainingDataOf(Trainer, io, disk).ret
                THEN [valid |-> TRUE, trainingData |-> trainingData_]
                ELSE IF disk' = disk THEN saved ELSE NotSaved
    /\ calls' = calls + 1
    /\ TrainInstall(Trainer)
    /\ trainOp' = [ObservedCall("saveTrainingData",
                                SaveTrainingDataOf(Trainer, io, disk).ret)
                      EXCEPT !.io = io]
    /\ detOp' = [NoCall EXCEPT !.op = "saveTrainingData", !.at = now]
    /\ UNCHANGED <<accepted, everTrained, trainings, profileFrom>>
    /\ UNCHANGED <<concVars, hostVars>>

\* bool loadTrainingData(const std::filesystem::path& path), the file it
\* reads and the detector it finds being recorded
LoadObserved(file) ==
    /\ calls < MaxCalls
    /\ TrainInstall(LoadTrainingDataOf(Trainer, file).t)
    /\ trainOp' = [ObservedCall("loadTrainingData",
                                LoadTrainingDataOf(Trainer, file).ret)
                      EXCEPT !.file = file]
    /\ detOp' = [NoCall EXCEPT !.op = "loadTrainingData", !.at = now]
    /\ everTrained' = (everTrained \/ LoadTrainingDataOf(Trainer, file).ret)
    /\ profileFrom' = IF LoadTrainingDataOf(Trainer, file).ret
                      THEN "loadTrainingData" ELSE profileFrom
    /\ calls' = calls + 1
    /\ UNCHANGED <<accepted, trainings, disk, saved>>
    /\ UNCHANGED <<concVars, hostVars>>

(***************************************************************************)
(* PatternTrainer.  The fixed point is that of the detector's training.    *)
(* The progress callback, stats.duration and startTime change nothing that *)
(* is followed here.                                                       *)
(***************************************************************************)
\* the 0.1f of "result.spectralFlatness < 0.1f" and of the flatness threshold
MIN_FLATNESS == 100

\* struct TrainingConfig, with small sample counts
TrainerConfig ==
    [minSamples |-> 2, maxSamples |-> 3,
     minEnergy |-> 10 * Milli, maxEnergy |-> Milli * Milli,
     sampleInterval |-> ClockStep]

\* struct TrainingStats{}
NoStats ==
    [samplesCollected |-> 0, samplesAccepted |-> 0, samplesRejected |-> 0,
     averageEnergy |-> 0, averageSpectralFlatness |-> 0]

\* Impl(analyzer_, config_) with its member initialisers
ConstructedImpl(config) ==
    [config |-> config, stats |-> NoStats,
     training |-> FALSE, complete |-> FALSE,
     spectra |-> <<>>, energies |-> <<>>, spectralFlatnesses |-> <<>>,
     spectralProfile |-> <<>>, energyThreshold |-> 0,
     spectralFlatnessThreshold |-> 0,
     lastSampleTime |-> 0]

\* blocks given to addSample: none; too quiet; too loud; tonal; two good ones
TrainerSamples ==
    {NullSample,
     Sample(<<3 * Milli, 4 * Milli>>, 5 * Milli, 600),
     Sample(<<3 * Milli, 4 * Milli>>, 2 * Milli * Milli, 600),
     Sample(<<3 * Milli, 4 * Milli>>, 20 * Milli, 50),
     Sample(<<3 * Milli, 4 * Milli>>, 20 * Milli, 600),
     Sample(<<4 * Milli, 3 * Milli>>, 50 * Milli, 800)}

\* void PatternTrainer::startTraining(), called at time t
TrainerStartTrainingOf(p, t) ==
    [p EXCEPT !.training = TRUE,
              !.complete = FALSE,
              !.spectra = <<>>,
              !.energies = <<>>,
              !.spectralFlatnesses = <<>>,
              !.spectralProfile = <<>>,
              !.energyThreshold = 0,
              !.spectralFlatnessThreshold = 0,
              !.stats = NoStats,
              !.lastSampleTime = t]

\* addSample counts the block as collected and rejected
Rejected(p) ==
    [p EXCEPT !.stats.samplesCollected = @ + 1,
              !.stats.samplesRejected = @ + 1]

\* addSample lines 174-192: the block is accepted at time t
Accepted(p, sample, t) ==
    [p EXCEPT !.spectra = Append(@, sample.magnitudes),
              !.energies = Append(@, sample.energy),
              !.spectralFlatnesses = Append(@, sample.flatness),
              !.stats.samplesCollected = @ + 1,
              !.stats.samplesAccepted = @ + 1,
              !.lastSampleTime = t,
              !.stats.averageEnergy = Mean(Append(p.energies, sample.energy)),
              !.stats.averageSpectralFlatness =
                 Mean(Append(p.spectralFlatnesses, sample.flatness))]

\* bool PatternTrainer::addSample(samples, count), called at time t; the
\* result is [p, ret]
AddSampleTo(p, sample, t) ==
    IF ~p.training \/ sample.null
    THEN [p |-> p, ret |-> FALSE]
    ELSE IF p.stats.samplesAccepted >= p.config.maxSamples
    THEN [p |-> p, ret |-> FALSE]
    ELSE IF t - p.lastSampleTime < p.config.sampleInterval
    THEN [p |-> p, ret |-> FALSE]
    ELSE IF sample.energy < p.config.minEnergy
    THEN [p |-> Rejected(p), ret |-> FALSE]
    ELSE IF sample.energy > p.config.maxEnergy
    THEN [p |-> Rejected(p), ret |-> FALSE]
    ELSE IF sample.flatness < MIN_FLATNESS
    THEN [p |-> Rejected(p), ret |-> FALSE]
    ELSE [p |-> Accepted(p, sample, t), ret |-> TRUE]

\* void Impl::normalizeProfile(std::vector<float>& profile)
NormalizeProfile(profile) ==
    IF profile = <<>> THEN profile
    ELSE LET norm == Sqrt(SumSeq([i \in 1..Len(profile) |->
                                     profile[i] * profile[i]]))
         IN IF norm > 0
            THEN [i \in 1..Len(profile) |-> (profile[i] * Milli) \div norm]
            ELSE profile

\* finishTraining lines 230-265: the profile and the thresholds are computed
TrainerLearn(p) ==
    LET profileSize == Len(p.spectra[1])
        summed == Accumulate(Resize(p.spectralProfile, profileSize), p.spectra)
        numSamples == Len(p.spectra)
        averaged == [i \in 1..Len(summed) |-> summed[i] \div numSamples]
        energyMean == p.stats.averageEnergy
        energyStdDev == ComputeStdDev(p.energies, energyMean)
        flatnessMean == p.stats.averageSpectralFlatness
        flatnessStdDev == ComputeStdDev(p.spectralFlatnesses, flatnessMean)
    IN [p EXCEPT
          !.spectralProfile = NormalizeProfile(averaged),
          !.energyThreshold =
             Max(p.config.minEnergy, energyMean - 2 * energyStdDev),
          !.spectralFlatnessThreshold =
             Max(MIN_FLATNESS, flatnessMean - 2 * flatnessStdDev),
          !.complete = TRUE]

\* bool PatternTrainer::finishTraining(); the result is [p, ret]
TrainerFinishTrainingOf(p) ==
    IF ~p.training
    THEN [p |-> p, ret |-> FALSE]
    ELSE LET p1 == [p EXCEPT !.training = FALSE]
         IN IF p1.stats.samplesAccepted < p1.config.minSamples
            THEN [p |-> p1, ret |-> FALSE]
            ELSE IF p1.spectra = <<>> \/ p1.spectra[1] = <<>>
                 THEN [p |-> p1, ret |-> FALSE]
                 ELSE [p |-> TrainerLearn(p1), ret |-> TRUE]

\* void PatternTrainer::cancelTraining()
CancelTrainingOf(p) ==
    [p EXCEPT !.training = FALSE,
              !.complete = FALSE,
              !.spectra = <<>>,
              !.energies = <<>>,
              !.spectralFlatnesses = <<>>,
              !.spectralProfile = <<>>,
              !.energyThreshold = 0,
              !.spectralFlatnessThreshold = 0]

\* the profile a trainer holds: its spectral profile and energy threshold
ProfileHeld(p) ==
    [spectralProfile |-> p.spectralProfile,
     energyThreshold |-> p.energyThreshold]

\* ptOp: the call, what it returned, whether it found a session in progress
\* and the profile it found
TrainerCall(op, ret) ==
    [op |-> op, ret |-> ret, wasTraining |-> impl_.training,
     before |-> ProfileHeld(impl_)]

\* a behaviour starts with a trainer constructed with config
TrainerStartsAs(config) ==
    /\ impl_ = ConstructedImpl(config)
    /\ ptOp = [op |-> "init", ret |-> FALSE, wasTraining |-> FALSE,
               before |-> ProfileHeld(ConstructedImpl(config))]
    /\ ptHeld = ProfileHeld(ConstructedImpl(config))

\* void PatternTrainer::startTraining()
TrainerStartTraining ==
    /\ impl_' = TrainerStartTrainingOf(impl_, now)
    /\ ptOp' = TrainerCall("startTraining", FALSE)
    /\ ptHeld' = ProfileHeld(impl_)
    /\ UNCHANGED <<smVars, detVars, histVars, scoreVars, trainVars, persistVars,
                   concVars, hostVars>>

\* bool PatternTrainer::addSample(const float* samples, size_t count)
AddSample(sample) ==
    /\ impl_.stats.samplesCollected < MaxCollected
    /\ impl_' = AddSampleTo(impl_, sample, now).p
    /\ ptOp' = TrainerCall("addSample", AddSampleTo(impl_, sample, now).ret)
    /\ UNCHANGED ptHeld
    /\ UNCHANGED <<smVars, detVars, histVars, scoreVars, trainVars, persistVars,
                   concVars, hostVars>>

\* bool PatternTrainer::finishTraining()
TrainerFinishTraining ==
    /\ impl_' = TrainerFinishTrainingOf(impl_).p
    /\ ptOp' = TrainerCall("finishTraining", TrainerFinishTrainingOf(impl_).ret)
    /\ UNCHANGED ptHeld
    /\ UNCHANGED <<smVars, detVars, histVars, scoreVars, trainVars, persistVars,
                   concVars, hostVars>>

\* void PatternTrainer::cancelTraining()
CancelTraining ==
    /\ impl_' = CancelTrainingOf(impl_)
    /\ ptOp' = TrainerCall("cancelTraining", FALSE)
    /\ UNCHANGED ptHeld
    /\ UNCHANGED <<smVars, detVars, histVars, scoreVars, trainVars, persistVars,
                   concVars, hostVars>>

(***************************************************************************)
(* FFTNoiseDetector called from two threads: the capture thread delivers   *)
(* blocks to analyze, the control thread trains, loads and configures.     *)
(* An operation is followed access by access: it takes mutex_ if it opens  *)
(* with a lock_guard, reads or writes members in program order, and        *)
(* releases mutex_ when it returns.  An access begins and ends in separate *)
(* steps.  The histories and the detection state are touched by analyze    *)
(* alone and are written with its last access.  The observers of the       *)
(* sequential operations stay where they are.                              *)
(***************************************************************************)
Threads == {"capture", "control"}

\* analyze guarded alone
Guards_OnlyAnalyze(op) == op = "analyze"

\* the operations that open with std::lock_guard<std::mutex> lock(mutex_)
Guards(op) ==
    op \in {"startTraining", "addTrainingSample", "finishTraining",
            "analyze", "saveTrainingData", "loadTrainingData"}

\* what an operation is given: a block, a file or a number
NoArg == [block |-> EmptyBlock, file |-> GoodFile, value |-> 0]

\* the files the control thread loads: one that loads, one that is rejected
\* before any member is touched
ConcFiles == {GoodFile, [GoodFile EXCEPT !.version = FORMAT_VERSION + 1]}

\* the calls of the capture thread
CaptureCalls ==
    {[op |-> "analyze", arg |-> [NoArg EXCEPT !.block = b]] : b \in TrainBlocks}

\* the calls of the control thread
ControlCalls ==
    {[op |-> "finishTraining", arg |-> NoArg],
     [op |-> "setSensitivity", arg |-> [NoArg EXCEPT !.value = Milli]],
     [op |-> "setMinDetectionDuration", arg |-> [NoArg EXCEPT !.value = 0]],
     [op |-> "hasTrainingData", arg |-> NoArg],
     [op |-> "isTraining", arg |-> NoArg]}
    \cup {[op |-> "loadTrainingData", arg |-> [NoArg EXCEPT !.file = file]] :
             file \in ConcFiles}

CallsOf(th) == IF th = "capture" THEN CaptureCalls ELSE ControlCalls

\* the members an operation reads or writes, in program order
Accesses(op, arg) ==
    CASE op = "analyze" ->
            IF arg.block.empty
            THEN <<"isCurrentlyDetecting_">>
            ELSE <<"hasTrainingData_", "energyThreshold", "spectralProfile",
                   "minDetectionDurationMs_">>
      [] op = "finishTraining" ->
            <<"training_", "spectralProfile", "energyThreshold",
              "correlationThreshold", "hasTrainingData_", "trainingSpectra_">>
      [] op = "loadTrainingData" ->
            IF ~arg.file.opens \/ ~arg.file.magic
               \/ arg.file.version # FORMAT_VERSION
               \/ arg.file.profileSize = 0
               \/ arg.file.profileSize > MAX_PROFILE_SIZE
            THEN <<>>
            ELSE IF Len(arg.file.data) < arg.file.profileSize
                 THEN <<"spectralProfile">>
                 ELSE <<"spectralProfile", "energyThreshold",
                        "hasTrainingData_">>
      [] op = "setSensitivity" ->
            <<"sensitivity_", "hasTrainingData_", "correlationThreshold">>
      [] op = "setMinDetectionDuration" -> <<"minDetectionDurationMs_">>
      [] op = "hasTrainingData" -> <<"hasTrainingData_">>
      [] op = "isTraining" -> <<"training_">>
      [] OTHER -> <<>>

\* what analyze has read of the profile
NotSeen ==
    [hasTrainingData |-> FALSE, energyThreshold |-> 0, spectralProfile |-> <<>>]

\* a thread that runs no operation; count is the number of calls it has made,
\* waited is the operation that held mutex_ when its own operation began
Idle(count) ==
    [op |-> "idle", arg |-> NoArg, phase |-> "idle", pc |-> 1, at |-> FALSE,
     seen |-> NotSeen, target |-> ConstructedTrainer(0), ret |-> FALSE,
     waited |-> "none", count |-> count]

\* the profile analyze scores against: the spectrum and the energy threshold
ProfileOfData(trainingData) ==
    [spectralProfile |-> trainingData.spectralProfile,
     energyThreshold |-> trainingData.energyThreshold]

NoProfiles == {}

NoAnalyze == [returned |-> FALSE, scored |-> FALSE, seen |-> NotSeen,
              waited |-> "none"]

\* a behaviour starts with no thread in the detector
ThreadsStartAs(profiles) ==
    /\ mutex_ = "free"
    /\ threads = [th \in Threads |-> Idle(0)]
    /\ installed = profiles
    /\ lastAnalyze = NoAnalyze

\* the training side t and the detection side d become the state
ConcInstall(t, d) ==
    /\ sensitivity_' = t.sensitivity
    /\ training_' = t.training
    /\ trainingSpectra_' = t.trainingSpectra
    /\ trainingEnergies_' = t.trainingEnergies
    /\ trainingFlatnesses_' = t.trainingFlatnesses
    /\ trainingData_' = t.trainingData
    /\ spectralFlatnessThreshold_' = t.spectralFlatnessThreshold
    /\ energyMinThreshold_' = t.energyMinThreshold
    /\ energyVarianceThreshold_' = t.energyVarianceThreshold
    /\ hasTrainingData_' = t.hasTrainingData
    /\ minDetectionDurationMs_' = d.minDetectionDurationMs
    /\ detectionStartTime_' = d.detectionStartTime
    /\ isCurrentlyDetecting_' = d.isCurrentlyDetecting
    /\ spikeTriggered_' = d.spikeTriggered
    /\ spikeTime_' = d.spikeTime
    /\ energyHistory_' = d.energyHistory
    /\ energyHistoryIndex_' = d.energyHistoryIndex
    /\ confidenceHistory_' = d.confidenceHistory
    /\ confidenceHistoryIndex_' = d.confidenceHistoryIndex
    /\ UNCHANGED <<now, detOp, held, blocks, past>>
    /\ UNCHANGED <<trainOp, accepted, everTrained, trainings, profileFrom>>
    /\ UNCHANGED <<smVars, histVars, scoreVars, ptVars, persistVars, hostVars>>

\* the bound on the calls of a thread
MaxCallsOf(th) == IF th = "capture" THEN MaxTrainBlocks ELSE MaxCalls

\* thread th calls an operation; it has to take mutex_ first if the operation
\* opens with a lock_guard
Begin(th, call) ==
    /\ threads[th].phase = "idle"
    /\ threads[th].count < MaxCallsOf(th)
    /\ threads' = [threads EXCEPT ![th] =
                      [Idle(threads[th].count) EXCEPT
                         !.op = call.op,
                         !.arg = call.arg,
                         !.phase = IF Guards(call.op) THEN "lock" ELSE "body",
                         !.waited = IF mutex_ = "free" THEN "none"
                                    ELSE threads[mutex_].op]]
    /\ ConcInstall(Trainer, Detector)
    /\ UNCHANGED <<mutex_, installed, lastAnalyze>>

\* std::lock_guard<std::mutex> lock(mutex_): th goes on once mutex_ is free
Acquire(th) ==
    /\ threads[th].phase = "lock"
    /\ mutex_ = "free"
    /\ mutex_' = th
    /\ threads' = [threads EXCEPT ![th].phase = "body"]
    /\ ConcInstall(Trainer, Detector)
    /\ UNCHANGED <<installed, lastAnalyze>>

\* th begins its next access
StartAccess(th) ==
    /\ threads[th].phase = "body"
    /\ ~threads[th].at
    /\ threads[th].pc <= Len(Accesses(threads[th].op, threads[th].arg))
    /\ threads' = [threads EXCEPT ![th].at = TRUE]
    /\ ConcInstall(Trainer, Detector)
    /\ UNCHANGED <<mutex_, installed, lastAnalyze>>

\* the access of me is made: the training side, the detection side and the
\* thread after it
Performed(me) ==
    LET f == Accesses(me.op, me.arg)[me.pc]
        end == Len(Accesses(me.op, me.arg)) + 1
        next == [me EXCEPT !.pc = @ + 1, !.at = FALSE]
        same == [t |-> Trainer, d |-> Detector, me |-> next]
    IN CASE me.op = "analyze" /\ f = "isCurrentlyDetecting_" ->
              \* lines 205-208
              [same EXCEPT !.d = UpdateTemporalState(Detector, now, FALSE).d]
         [] me.op = "analyze" /\ f = "hasTrainingData_" ->
              \* line 218
              [same EXCEPT !.me.seen.hasTrainingData = hasTrainingData_,
                           !.me.pc = IF hasTrainingData_ THEN me.pc + 1 ELSE end]
         [] me.op = "analyze" /\ f = "energyThreshold" ->
              \* lines 265-275
              [same EXCEPT !.me.seen.energyThreshold =
                              trainingData_.energyThreshold]
         [] me.op = "analyze" /\ f = "spectralProfile" ->
              \* lines 280-281
              [same EXCEPT !.me.seen.spectralProfile =
                              trainingData_.spectralProfile]
         [] me.op = "analyze" /\ f = "minDetectionDurationMs_" ->
              \* lines 240-262 and 284-322
              [same EXCEPT !.d = Score(Detector, now, me.arg.block).d,
                           !.me.ret = Score(Detector, now, me.arg.block)
                                         .isWhiteNoise]
         [] me.op = "finishTraining" /\ f = "training_" ->
              \* lines 111-125
              IF FinishTrainingOf(Trainer).ret
              THEN [same EXCEPT !.t.training = FALSE,
                                !.me.target = FinishTrainingOf(Trainer).t]
              ELSE [same EXCEPT !.t = FinishTrainingOf(Trainer).t,
                                !.me.pc = end]
         [] me.op = "finishTraining" /\ f = "spectralProfile" ->
              \* lines 128-143
              [same EXCEPT !.t.trainingData.spectralProfile =
                              me.target.trainingData.spectralProfile]
         [] me.op = "finishTraining" /\ f = "energyThreshold" ->
              \* line 151
              [same EXCEPT !.t.trainingData.energyThreshold =
                              me.target.trainingData.energyThreshold]
         [] me.op = "finishTraining" /\ f = "correlationThreshold" ->
              \* lines 155-167
              [same EXCEPT !.t.energyMinThreshold = me.target.energyMinThreshold,
                           !.t.energyVarianceThreshold =
                              me.target.energyVarianceThreshold,
                           !.t.spectralFlatnessThreshold =
                              me.target.spectralFlatnessThreshold,
                           !.t.trainingData.correlationThreshold =
                              me.target.trainingData.correlationThreshold]
         [] me.op = "finishTraining" /\ f = "hasTrainingData_" ->
              \* line 175
              [same EXCEPT !.t.hasTrainingData = TRUE, !.me.ret = TRUE]
         [] me.op = "finishTraining" /\ f = "trainingSpectra_" ->
              \* lines 183-185
              [same EXCEPT !.t.trainingSpectra = <<>>,
                           !.t.trainingEnergies = <<>>,
                           !.t.trainingFlatnesses = <<>>]
         [] me.op = "loadTrainingData" /\ f = "spectralProfile" ->
              \* lines 408-412
              [same EXCEPT !.t.trainingData.spectralProfile =
                              ReadProfile(@, me.arg.file)]
         [] me.op = "loadTrainingData" /\ f = "energyThreshold" ->
              \* lines 420-423
              [same EXCEPT !.t.trainingData.energyThreshold =
                              me.arg.file.energyThreshold,
                           !.t.trainingData.correlationThreshold =
                              me.arg.file.correlationThreshold,
                           !.t.spectralFlatnessThreshold =
                              me.arg.file.spectralFlatnessThreshold]
         [] me.op = "loadTrainingData" /\ f = "hasTrainingData_" ->
              \* line 428
              [same EXCEPT !.t.hasTrainingData = TRUE, !.me.ret = TRUE]
         [] me.op = "setSensitivity" /\ f = "sensitivity_" ->
              \* line 446
              [same EXCEPT !.t.sensitivity =
                              Max(0, Min(me.arg.value, Milli))]
         [] me.op = "setSensitivity" /\ f = "hasTrainingData_" ->
              \* line 449
              [same EXCEPT !.me.pc = IF hasTrainingData_ THEN me.pc + 1 ELSE end]
         [] me.op = "setSensitivity" /\ f = "correlationThreshold" ->
              \* line 450
              [same EXCEPT !.t.trainingData.correlationThreshold =
                              SetSensitivityOf(
                                 [Trainer EXCEPT !.hasTrainingData = TRUE],
                                 sensitivity_).trainingData.correlationThreshold]
         [] me.op = "setMinDetectionDuration" ->
              \* line 459
              [same EXCEPT !.d.minDetectionDurationMs =
                              ClampMinDuration(me.arg.value)]
         [] me.op = "hasTrainingData" ->
              \* line 440
              [same EXCEPT !.me.ret = hasTrainingData_]
         [] me.op = "isTraining" ->
              \* line 191
              [same EXCEPT !.me.ret = training_]

\* th ends the access it began; a profile is complete once finishTraining or
\* loadTrainingData has set hasTrainingData_
FinishAccess(th) ==
    /\ threads[th].phase = "body"
    /\ threads[th].at
    /\ threads' = [threads EXCEPT ![th] = Performed(threads[th]).me]
    /\ ConcInstall(Performed(threads[th]).t, Performed(threads[th]).d)
    /\ installed' =
          IF /\ threads[th].op \in {"finishTraining", "loadTrainingData"}
             /\ Performed(threads[th]).me.ret
             /\ ~threads[th].ret
          THEN installed \cup {ProfileOfData(Performed(threads[th]).t.trainingData)}
          ELSE installed
    /\ UNCHANGED <<mutex_, lastAnalyze>>

\* th returns from its operation; the lock_guard releases mutex_
Return(th) ==
    /\ threads[th].phase = "body"
    /\ ~threads[th].at
    /\ threads[th].pc > Len(Accesses(threads[th].op, threads[th].arg))
    /\ mutex_' = IF mutex_ = th THEN "free" ELSE mutex_
    /\ threads' = [threads EXCEPT ![th] = Idle(threads[th].count + 1)]
    /\ lastAnalyze' =
          IF threads[th].op = "analyze"
          THEN [returned |-> TRUE,
                scored |-> threads[th].seen.hasTrainingData,
                seen |-> threads[th].seen,
                waited |-> threads[th].waited]
          ELSE lastAnalyze
    /\ ConcInstall(Trainer, Detector)
    /\ UNCHANGED installed

\* a detector that holds the profile of GoodFile and has collected the samples
\* of a training, and one just constructed
Concurrent ==
    {Collected(StartTrainingOf(LoadTrainingDataOf(ConstructedTrainer(0),
                                                  GoodFile).t),
               MIN_TRAINING_SAMPLES),
     ConstructedTrainer(0)}

(***************************************************************************)
(* MicMapApp: the audio callback registered by initialize.  The callback   *)
(* arrives every ClockStep ms; the three readings of the steady clock in   *)
(* one callback give the same time.  The levels it publishes for the UI    *)
(* are not followed.  The callback is followed while isTraining is false.  *)
(***************************************************************************)
\* at most this many audio callbacks are delivered
MaxCallbacks == 12

\* the 300 of "cooldownElapsed >= 300"
INLINE_COOLDOWN_MS == 300

\* DetectionConfig: sensitivity, minDurationMs, cooldownMs as defaulted
AppConfig ==
    [minDetectionDuration |-> 300, cooldownDuration |-> 300,
     detectionThreshold |-> Float(70)]

\* the blocks delivered: quiet and unlike the profile, loud and like it
AppBlocks == {Block(SPIKE_DB, HIGH_CONFIDENCE - 10), Block(SPIKE_DB + 5, 90)}

NoGesture == [active |-> FALSE, fired |-> 0]

\* MicMapApp after initialize(): members as defaulted, detectionTimeMs from
\* the configuration, lastUpdate the time of initialize; a default
\* time_point is the clock's epoch
AppStartsAs(ms) ==
    /\ detectionStartTime = 0
    /\ detectionActive = FALSE
    /\ buttonWouldFire = FALSE
    /\ inCooldown = FALSE
    /\ lastTriggerTime = 0
    /\ lastUpdate = 0
    /\ detectionTimeMs = ms
    /\ gesture = NoGesture
    /\ callbacks = 0

\* the capture thread at pc, calling on instance on
CaptureAt(pc, on) == [pc |-> pc, on |-> on]

\* MicMapApp after initialize(): the first detector instance, not training,
\* capture started (line 323) or not (no device)
UiStartsAs(started) ==
    /\ detector = 0
    /\ isTraining = FALSE
    /\ audioMutex = "free"
    /\ capturing_ = started
    /\ capture = CaptureAt(IF started THEN "wait" ELSE "exited", 0)
    /\ ui = "idle"

\* the latest call on the AudioBuffer: none yet
NoBufCall ==
    [op |-> "none", count |-> 0, ret |-> 0, data |-> <<>>,
     available |-> 0, space |-> 0, unread |-> <<>>,
     pre |-> [buffer |-> <<>>, capacity |-> 0, readPos |-> 0, writePos |-> 0]]

\* a size_t: mag when not wrapped, 2^64 - mag when wrapped (mag > 0)
SizeT(wrapped, mag) == [wrapped |-> wrapped, mag |-> mag]

\* the thread that reads the buffer's counters: in no call
NoObserver ==
    [pc |-> "idle", fn |-> "none", writeFirst |-> FALSE, w |-> 0, r |-> 0,
     value |-> SizeT(FALSE, 0), answer |-> FALSE,
     sawEmpty |-> FALSE, sawNonEmpty |-> FALSE,
     sawFull |-> FALSE, sawNotFull |-> FALSE]

\* AudioBuffer::AudioBuffer(capacity): a zeroed vector, both positions 0
BufStartsAs(capacity) ==
    /\ buffer_ = [i \in 1..capacity |-> 0]
    /\ capacity_ = capacity
    /\ readPos_ = 0
    /\ writePos_ = 0
    /\ bufOp = NoBufCall
    /\ stored = <<>>
    /\ returned = <<>>
    /\ offered = 0
    /\ obs = NoObserver

\* the boolean input components: /input/system/click, /input/a/click,
\* /input/trigger/click
Buttons == {"system", "a", "trigger"}

\* VirtualController after Activate, at time t: nothing pressed, nothing
\* pending, the runtime told of nothing
CtlStartsAs(t) ==
    /\ systemButtonPressed_ = FALSE
    /\ aButtonPressed_ = FALSE
    /\ triggerPressed_ = FALSE
    /\ pendingReleases_ = <<>>
    /\ reported = [b \in Buttons |-> FALSE]
    /\ steady = t
    /\ ctlOp = [op |-> "Activate", button |-> "system", met |-> {}]
    /\ promises = {}
    /\ clicks = 0

\* the default of the constructor's port argument
DEFAULT_PORT == 27015

\* Start not yet called
NotStarted ==
    [pc |-> "idle", tryPort |-> 0, startPort |-> 0, endPort |-> 0,
     ret |-> FALSE, sawRunning |-> FALSE]

\* HttpServer::HttpServer(controller, port, host)
HttpStartsAs(port) ==
    /\ port_ = port
    /\ running_ = FALSE
    /\ serverThread_ = "none"
    /\ starter = NotStarted

ApartStartsAs(capacity) ==
    BufStartsAs(capacity) /\ CtlStartsAs(0) /\ HttpStartsAs(DEFAULT_PORT)

HostStartsAs(ms) == AppStartsAs(ms) /\ UiStartsAs(TRUE) /\ ApartStartsAs(1)

\* the state machine as initialize() leaves it: created with the configured
\* durations and threshold, the trigger callback set to onTrigger
AppStateMachine(config) ==
    /\ config_ = config
    /\ currentState_ = "Idle"
    /\ timeInState_ = 0
    /\ triggerCallback_ = TRUE
    /\ stateChangeCallback_ = FALSE
    /\ smOp = [op |-> "setTriggerCallback", conf |-> Float(0), dt |-> 0,
               pre |-> "Idle", preTime |-> 0]
    /\ smEvents = <<>>
    /\ streak = NoStreak
    /\ run = NoRun
    /\ gap = NoGap

\* lines 273-303: the inline path of the callback at time t, given the
\* isWhiteNoise of the block; the result is the application after it and the
\* number of onTrigger() calls made
InlinePath(app, isWhiteNoise, t) ==
    IF isWhiteNoise
    THEN LET start == IF app.detectionActive THEN app.detectionStartTime ELSE t
             fire == /\ t - start >= app.detectionTimeMs
                     /\ ~app.buttonWouldFire
                     /\ t - app.lastTriggerTime >= INLINE_COOLDOWN_MS
                     /\ ~app.inCooldown
         IN [app |-> [app EXCEPT
                        !.detectionStartTime = start,
                        !.detectionActive = TRUE,
                        !.buttonWouldFire = @ \/ fire,
                        !.lastTriggerTime = IF fire THEN t ELSE @,
                        !.inCooldown = @ \/ fire],
             fired |-> IF fire THEN 1 ELSE 0]
    ELSE [app |-> [app EXCEPT !.detectionActive = FALSE,
                              !.buttonWouldFire = FALSE,
                              !.inCooldown = FALSE],
          fired |-> 0]

\* the application as a callback finds it
App ==
    [detectionStartTime |-> detectionStartTime,
     detectionActive |-> detectionActive,
     buttonWouldFire |-> buttonWouldFire,
     inCooldown |-> inCooldown,
     lastTriggerTime |-> lastTriggerTime,
     detectionTimeMs |-> detectionTimeMs]

\* the application app becomes the state
AppInstall(app) ==
    /\ detectionStartTime' = app.detectionStartTime
    /\ detectionActive' = app.detectionActive
    /\ buttonWouldFire' = app.buttonWouldFire
    /\ inCooldown' = app.inCooldown
    /\ lastTriggerTime' = app.lastTriggerTime
    /\ detectionTimeMs' = app.detectionTimeMs

\* gesture after a callback whose block was reported isWhiteNoise and in which
\* onTrigger() was called n times
GestureAfter(isWhiteNoise, n) ==
    IF isWhiteNoise
    THEN [active |-> TRUE,
          fired |-> Min((IF gesture.active THEN gesture.fired ELSE 0) + n,
                        MaxCount)]
    ELSE NoGesture

\* the audio callback (lines 247-322) is given block b at time now, with a
\* profile held: analyze, the inline path, then the state machine's update
CallbackScored(b) ==
    LET r == AnalyzeResult(Detector, now, b)
        inline == InlinePath(App, r.isWhiteNoise, now)
        m == UpdateResult(Float(r.confidence), now - lastUpdate)
    IN /\ Install(r.d)
       /\ held' = HeldAfter(r)
       /\ detOp' = [op |-> "analyze", block |-> b, at |-> now,
                    confidence |-> r.confidence,
                    isWhiteNoise |-> r.isWhiteNoise,
                    scored |-> r.scored,
                    spikeValid |-> r.spikeValid,
                    highHits |-> r.highHits,
                    instantDetection |-> r.instantDetection,
                    wasDetecting |-> isCurrentlyDetecting_,
                    minDuration |-> minDetectionDurationMs_,
                    wasArmed |-> spikeTriggered_,
                    wasSpikeTime |-> spikeTime_,
                    wasWhite |-> past.white]
       /\ past' = PastAfter(r, b)
       /\ blocks' = blocks + 1
       /\ AppInstall(inline.app)
       /\ lastUpdate' = now
       /\ currentState_' = m.state
       /\ timeInState_' = m.time
       /\ smEvents' = m.events
       /\ smOp' = Call("update", Float(r.confidence), now - lastUpdate)
       /\ run' = RunAfterUpdate(Float(r.confidence), now - lastUpdate, m)
       /\ streak' = StreakAfterUpdate(Float(r.confidence), m)
       /\ gap' = GapAfterUpdate(now - lastUpdate, m)
       /\ gesture' = GestureAfter(r.isWhiteNoise,
                                  inline.fired + Triggers(m.events))
       /\ UNCHANGED <<config_, triggerCallback_, stateChangeCallback_>>

\* the audio callback with no profile held (lines 310-319)
CallbackIdle ==
    /\ AppInstall([App EXCEPT !.detectionActive = FALSE,
                              !.buttonWouldFire = FALSE])
    /\ gesture' = NoGesture
    /\ UNCHANGED <<lastUpdate, smVars>>
    /\ UNCHANGED <<minDetectionDurationMs_, hasTrainingData_,
                   detectionStartTime_, isCurrentlyDetecting_,
                   spikeTriggered_, spikeTime_, energyHistory_,
                   energyHistoryIndex_, confidenceHistory_,
                   confidenceHistoryIndex_, detOp, held, blocks, past>>

\* the audio callback, ClockStep after the one before
AudioCallback(b) ==
    /\ callbacks < MaxCallbacks
    /\ IF hasTrainingData_ THEN CallbackScored(b) ELSE CallbackIdle
    /\ callbacks' = callbacks + 1
    /\ now' = now + ClockStep
    /\ UNCHANGED <<histVars, scoreVars, trainVars, ptVars, persistVars,
                   concVars, uiVars, apartVars>>

(***************************************************************************)
(* MicMapApp: the UI thread (renderUI) beside the capture thread.  The     *)
(* detector is a unique_ptr: assigning a new instance destroys the one     *)
(* owned before.  Instances are numbered in the order of their creation.   *)
(* The capture thread loops while capturing_, delivering one callback per  *)
(* packet; the callback holds audioMutex and calls the detector at lines   *)
(* 262 or 264-266, and again at line 321.  What the calls compute is not   *)
(* followed here.                                                          *)
(***************************************************************************)
\* at most this many detector instances are created after the first
MaxDetectors == 3

\* the capture thread is inside a call on the detector
InDetectorCall == capture.pc \in {"call", "lastCall"}

\* the instance the capture thread is calling on has been destroyed
OnDestroyed == InDetectorCall /\ capture.on # detector

\* the steps of the two threads that leave the rest of the program alone
UiFrame(changed) ==
    /\ UNCHANGED <<smVars, detVars, histVars, scoreVars, trainVars, ptVars,
                   persistVars, concVars, appVars, apartVars>>
    /\ UNCHANGED changed

\* audio_capture.cpp: the capture loop finds capturing_ set and a packet, and
\* the callback takes audioMutex (main.cpp:248)
CallbackEnter ==
    /\ capture.pc = "wait"
    /\ capturing_
    /\ audioMutex = "free"
    /\ audioMutex' = "capture"
    /\ capture' = CaptureAt("locked", capture.on)
    /\ UiFrame(<<detector, isTraining, capturing_, ui>>)

\* main.cpp:261-266: the callback reads the detector pointer and enters
\* addTrainingSample, or hasTrainingData and analyze
CallbackCall ==
    /\ capture.pc = "locked"
    /\ capture' = CaptureAt("call", detector)
    /\ UiFrame(<<detector, isTraining, audioMutex, capturing_, ui>>)

\* the call returns; a call on a destroyed instance reads freed memory: it
\* returns all the same, or the process faults
CallbackReturn ==
    /\ capture.pc = "call"
    /\ \E faults \in (IF OnDestroyed THEN BOOLEAN ELSE {FALSE}) :
          capture' = CaptureAt(IF faults THEN "faulted" ELSE "between",
                               capture.on)
    /\ UiFrame(<<detector, isTraining, audioMutex, capturing_, ui>>)

\* main.cpp:321: the callback reads the pointer again and enters
\* hasTrainingData
CallbackLastCall ==
    /\ capture.pc = "between"
    /\ capture' = CaptureAt("lastCall", detector)
    /\ UiFrame(<<detector, isTraining, audioMutex, capturing_, ui>>)

\* main.cpp:321-322: the last call returns and the lock_guard releases
CallbackExit ==
    /\ capture.pc = "lastCall"
    /\ \E faults \in (IF OnDestroyed THEN BOOLEAN ELSE {FALSE}) :
          capture' = CaptureAt(IF faults THEN "faulted" ELSE "wait",
                               capture.on)
    /\ audioMutex' = "free"
    /\ UiFrame(<<detector, isTraining, capturing_, ui>>)

\* audio_capture.cpp: the capture loop finds capturing_ cleared and ends
CaptureLoopEnds ==
    /\ capture.pc = "wait"
    /\ ~capturing_
    /\ capture' = CaptureAt("exited", capture.on)
    /\ UiFrame(<<detector, isTraining, audioMutex, capturing_, ui>>)

\* main.cpp:414: the device combo changed; stopCapture clears capturing_
\* (audio_capture.cpp:441-446) and goes on to join the capture thread
DeviceChangeStops ==
    /\ ui = "idle"
    /\ capture.pc # "faulted"
    /\ capturing_' = FALSE
    /\ ui' = "joining"
    /\ UiFrame(<<detector, isTraining, audioMutex, capture>>)

\* main.cpp:414-422: the join returns (audio_capture.cpp:453-455), and with a
\* usable sample rate a new detector replaces the old one
DeviceChangeReplaces(usable) ==
    /\ ui = "joining"
    /\ capture.pc = "exited"
    /\ usable => detector < MaxDetectors
    /\ detector' = IF usable THEN detector + 1 ELSE detector
    /\ ui' = "stopped"
    /\ UiFrame(<<isTraining, audioMutex, capturing_, capture>>)

\* main.cpp:423: startCapture starts a new capture thread
DeviceChangeStarts ==
    /\ ui = "stopped"
    /\ capturing_' = TRUE
    /\ capture' = CaptureAt("wait", capture.on)
    /\ ui' = "idle"
    /\ UiFrame(<<detector, isTraining, audioMutex>>)

\* main.cpp:473-481: Clear, offered while not training, replaces the detector
\* when the device has a usable sample rate; capture keeps running and
\* audioMutex is not taken
Clear(usable) ==
    /\ ui = "idle"
    /\ ~isTraining
    /\ capture.pc # "faulted"
    /\ usable => detector < MaxDetectors
    /\ detector' = IF usable THEN detector + 1 ELSE detector
    /\ UiFrame(<<isTraining, audioMutex, capturing_, capture, ui>>)

\* main.cpp:467-470 and 442-462: Train Pattern and Stop Training (or the
\* automatic stop) flip isTraining
TrainingButton ==
    /\ ui = "idle"
    /\ capture.pc # "faulted"
    /\ isTraining' = ~isTraining
    /\ UiFrame(<<detector, audioMutex, capturing_, capture, ui>>)

(***************************************************************************)
(* AudioBuffer (audio_buffer.cpp).  Samples are numbered in the order in   *)
(* which they are offered to write, so that a lost, repeated or reordered  *)
(* sample shows.  The positions count samples written and read since       *)
(* construction; they are size_t and the model stops long before they      *)
(* wrap.  A null samples pointer is not followed.                          *)
(***************************************************************************)
\* the buffer is constructed with a capacity of at most this
MaxCapacity == 3

\* write, read and peek are called with a count of at most this
MaxRequest == 4

\* at most this many samples are offered to write
MaxOffered == 6

\* the AudioBuffer as a call finds it
Buffer ==
    [buffer |-> buffer_, capacity |-> capacity_, readPos |-> readPos_,
     writePos |-> writePos_]

\* AudioBuffer::available (124-126)
AvailableOf(b) == b.writePos - b.readPos

\* AudioBuffer::space (128-130)
SpaceOf(b) == b.capacity - AvailableOf(b)

\* the two memcpy of write (58-65): n samples go to slot idx and the slots
\* after it, up to the end of the vector, and the rest to its start
Stored(buffer, capacity, idx, samples, n) ==
    LET firstPart == Min(n, capacity - idx)
    IN [i \in 1..capacity |->
          IF idx < i /\ i <= idx + firstPart THEN samples[i - idx]
          ELSE IF i <= n - firstPart THEN samples[firstPart + i]
          ELSE buffer[i]]

\* the two memcpy of read and peek (85-92, 112-119): n samples from slot idx
\* and the slots after it, up to the end of the vector, then from its start
Fetched(buffer, capacity, idx, n) ==
    LET firstPart == Min(n, capacity - idx)
    IN [k \in 1..n |->
          IF k <= firstPart THEN buffer[idx + k] ELSE buffer[k - firstPart]]

\* write (44-69) that stores all it is given
WriteOf_NoSpace(b, samples) ==
    LET toWrite == Len(samples)
    IN IF toWrite = 0 \/ b.capacity = 0
       THEN [b |-> b, ret |-> 0]
       ELSE [b |-> [b EXCEPT
                      !.buffer = Stored(b.buffer, b.capacity,
                                        b.writePos % b.capacity, samples,
                                        Min(toWrite, b.capacity)),
                      !.writePos = @ + toWrite],
             ret |-> toWrite]

\* AudioBuffer::write (44-69): the buffer after it and the count returned
WriteOf(b, samples) ==
    LET toWrite == Min(Len(samples), SpaceOf(b))
    IN IF Len(samples) = 0 \/ toWrite = 0
       THEN [b |-> b, ret |-> 0]
       ELSE [b |-> [b EXCEPT
                      !.buffer = Stored(b.buffer, b.capacity,
                                        b.writePos % b.capacity, samples,
                                        toWrite),
                      !.writePos = @ + toWrite],
             ret |-> toWrite]

\* AudioBuffer::read (71-96): the buffer after it, the count returned and
\* the samples copied out
ReadOf(b, count) ==
    LET toRead == Min(count, AvailableOf(b))
    IN IF count = 0 \/ toRead = 0
       THEN [b |-> b, ret |-> 0, data |-> <<>>]
       ELSE [b |-> [b EXCEPT !.readPos = @ + toRead],
             ret |-> toRead,
             data |-> Fetched(b.buffer, b.capacity, b.readPos % b.capacity,
                              toRead)]

\* AudioBuffer::peek (98-122)
PeekOf(b, count) ==
    LET toPeek == Min(count, b.writePos - b.readPos)
    IN IF count = 0 \/ toPeek = 0
       THEN [b |-> b, ret |-> 0, data |-> <<>>]
       ELSE [b |-> b,
             ret |-> toPeek,
             data |-> Fetched(b.buffer, b.capacity, b.readPos % b.capacity,
                              toPeek)]

\* the samples written and not yet read, oldest first
Unread(b) ==
    [k \in 1..AvailableOf(b) |->
       b.buffer[((b.readPos + k - 1) % b.capacity) + 1]]

\* the buffer b becomes the state
BufInstall(b) ==
    /\ buffer_' = b.buffer
    /\ capacity_' = b.capacity
    /\ readPos_' = b.readPos
    /\ writePos_' = b.writePos

\* the record of a call that found the buffer as it is now
BufCall(op, count, r) ==
    [op |-> op, count |-> count, ret |-> r.ret,
     data |-> IF op = "write" THEN <<>> ELSE r.data,
     available |-> AvailableOf(Buffer), space |-> SpaceOf(Buffer),
     unread |-> Unread(Buffer), pre |-> Buffer]

\* what the calls on the AudioBuffer leave alone
BufFrame ==
    UNCHANGED <<smVars, detVars, histVars, scoreVars, trainVars, ptVars,
                persistVars, concVars, appVars, uiVars, ctlVars, httpVars>>

\* a - b in size_t, for a and b below 2^63
SizeSub(a, b) == IF a >= b THEN SizeT(FALSE, a - b) ELSE SizeT(TRUE, b - a)

\* available() from the two loads (124-126)
AvailableFrom(w, r) == SizeSub(w, r)

\* space() from available() (128-130): capacity_ - available() in size_t
SpaceFrom(capacity, a) ==
    IF a.wrapped THEN SizeT(FALSE, capacity + a.mag)
    ELSE SizeSub(capacity, a.mag)

\* empty() from available() (142-144)
EmptyFrom(a) == ~a.wrapped /\ a.mag = 0

\* full() from available() (146-148)
FullFrom(capacity, a) == a.wrapped \/ a.mag >= capacity

\* the observer o has seen the buffer as b is, if it is inside a call
Seeing(o, b) ==
    IF o.pc \in {"first", "second"}
    THEN [o EXCEPT !.sawEmpty = @ \/ AvailableOf(b) = 0,
                   !.sawNonEmpty = @ \/ AvailableOf(b) # 0,
                   !.sawFull = @ \/ AvailableOf(b) >= b.capacity,
                   !.sawNotFull = @ \/ AvailableOf(b) < b.capacity]
    ELSE o

\* a thread enters available, space, empty or full; none of them takes
\* mutex_.  The two loads of "writePos_ - readPos_" are unsequenced:
\* writeFirst tells which the build makes first
ObsBegin(fn, writeFirst) ==
    /\ obs.pc = "idle"
    /\ obs' = Seeing([NoObserver EXCEPT !.pc = "first", !.fn = fn,
                                        !.writeFirst = writeFirst], Buffer)
    /\ UNCHANGED <<buffer_, capacity_, readPos_, writePos_, bufOp, stored,
                   returned, offered>>
    /\ BufFrame

\* the first atomic load of available()
ObsLoadFirst ==
    /\ obs.pc = "first"
    /\ obs' = IF obs.writeFirst
              THEN [obs EXCEPT !.pc = "second", !.w = writePos_]
              ELSE [obs EXCEPT !.pc = "second", !.r = readPos_]
    /\ UNCHANGED <<buffer_, capacity_, readPos_, writePos_, bufOp, stored,
                   returned, offered>>
    /\ BufFrame

\* the second atomic load; the call computes its result and returns
ObsLoadSecond ==
    /\ obs.pc = "second"
    /\ LET w == IF obs.writeFirst THEN obs.w ELSE writePos_
           r == IF obs.writeFirst THEN readPos_ ELSE obs.r
           a == AvailableFrom(w, r)
       IN obs' = [obs EXCEPT
                    !.pc = "done", !.w = w, !.r = r,
                    !.value = IF obs.fn = "space"
                              THEN SpaceFrom(capacity_, a) ELSE a,
                    !.answer = IF obs.fn = "full"
                               THEN FullFrom(capacity_, a)
                               ELSE EmptyFrom(a)]
    /\ UNCHANGED <<buffer_, capacity_, readPos_, writePos_, bufOp, stored,
                   returned, offered>>
    /\ BufFrame

\* the caller has used the result
ObsReturn ==
    /\ obs.pc = "done"
    /\ obs' = NoObserver
    /\ UNCHANGED <<buffer_, capacity_, readPos_, writePos_, bufOp, stored,
                   returned, offered>>
    /\ BufFrame

\* write(samples, count) with the next count samples.  The call holds mutex_
\* from before its first access to after its last, and the one store that
\* another thread can see without the mutex is "writePos_ += toWrite"
Write(count) ==
    /\ offered + count <= MaxOffered
    /\ LET samples == [k \in 1..count |-> offered + k]
           r == WriteOf(Buffer, samples)
       IN /\ BufInstall(r.b)
          /\ bufOp' = BufCall("write", count, r)
          /\ stored' = stored \o SubSeq(samples, 1, r.ret)
          /\ obs' = Seeing(obs, r.b)
    /\ offered' = offered + count
    /\ UNCHANGED returned
    /\ BufFrame

\* read(samples, count)
Read(count) ==
    /\ LET r == ReadOf(Buffer, count)
       IN /\ BufInstall(r.b)
          /\ bufOp' = BufCall("read", count, r)
          /\ returned' = returned \o r.data
          /\ obs' = Seeing(obs, r.b)
    /\ UNCHANGED <<stored, offered>>
    /\ BufFrame

\* peek(samples, count)
Peek(count) ==
    /\ LET r == PeekOf(Buffer, count)
       IN /\ BufInstall(r.b)
          /\ bufOp' = BufCall("peek", count, r)
    /\ UNCHANGED <<stored, returned, offered, obs>>
    /\ BufFrame

(***************************************************************************)
(* VirtualController (driver/src/virtual_controller.cpp), active, with its *)
(* input components created: the handles are valid and distinct.  The      *)
(* runtime calls RunFrame; the HTTP server calls the Click, Press and      *)
(* Release methods.  Each call runs whole, at the steady clock's time.     *)
(***************************************************************************)
\* at most this many Click calls are made
MaxClicks == 2

\* the steady clock is followed for this many steps of ClockStep
MaxSteady == 4

\* the durations given to Click, in ms
ClickDurations == {ClockStep, 3 * ClockStep}

\* the controller as a call finds it
Controller ==
    [pressed |-> [b \in Buttons |->
                    CASE b = "system" -> systemButtonPressed_
                      [] b = "a" -> aButtonPressed_
                      [] OTHER -> triggerPressed_],
     pending |-> pendingReleases_,
     reported |-> reported]

\* the controller c becomes the state
CtlInstall(c) ==
    /\ systemButtonPressed_' = c.pressed["system"]
    /\ aButtonPressed_' = c.pressed["a"]
    /\ triggerPressed_' = c.pressed["trigger"]
    /\ pendingReleases_' = c.pending
    /\ reported' = c.reported

\* PressSystemButton, PressAButton, PressTrigger (222-231, 263-272, 304-314)
PressOf(c, b) ==
    [c EXCEPT !.pressed[b] = TRUE, !.reported[b] = TRUE]

\* ReleaseSystemButton, ReleaseAButton, ReleaseTrigger (233-242, 274-283,
\* 316-326)
ReleaseOf(c, b) ==
    [c EXCEPT !.pressed[b] = FALSE, !.reported[b] = FALSE]

\* ClickSystemButton, ClickAButton, ClickTrigger (244-261, 285-302, 328-346)
\* at time t
ClickOf(c, b, durationMs, t) ==
    [PressOf(c, b) EXCEPT
       !.pending = Append(@, [button |-> b, releaseTime |-> t + durationMs])]

\* RunFrame (354-378) at time t: every pending release whose time has come
\* releases its button and is erased, the others stay in order
RECURSIVE RunFrameOf(_, _, _)
RunFrameOf(c, i, t) ==
    IF i > Len(c.pending) THEN c
    ELSE IF t >= c.pending[i].releaseTime
         THEN RunFrameOf(
                [ReleaseOf(c, c.pending[i].button) EXCEPT
                   !.pending = SubSeq(c.pending, 1, i - 1)
                                  \o SubSeq(c.pending, i + 1, Len(c.pending))],
                i, t)
         ELSE RunFrameOf(c, i + 1, t)

\* what the calls on the VirtualController leave alone
CtlFrame ==
    UNCHANGED <<smVars, detVars, histVars, scoreVars, trainVars, ptVars,
                persistVars, concVars, appVars, uiVars, bufVars, httpVars>>

Press(b) ==
    /\ CtlInstall(PressOf(Controller, b))
    /\ ctlOp' = [op |-> "Press", button |-> b, met |-> {}]
    /\ UNCHANGED <<steady, promises, clicks>>
    /\ CtlFrame

Release(b) ==
    /\ CtlInstall(ReleaseOf(Controller, b))
    /\ ctlOp' = [op |-> "Release", button |-> b, met |-> {}]
    /\ UNCHANGED <<steady, promises, clicks>>
    /\ CtlFrame

Click(b, durationMs) ==
    /\ clicks < MaxClicks
    /\ CtlInstall(ClickOf(Controller, b, durationMs, steady))
    /\ ctlOp' = [op |-> "Click", button |-> b, met |-> {}]
    /\ promises' = promises \cup {[button |-> b, until |-> steady + durationMs]}
    /\ clicks' = clicks + 1
    /\ UNCHANGED steady
    /\ CtlFrame

\* RunFrame; the clicks whose time has come are met by this frame
RunFrame ==
    /\ CtlInstall(RunFrameOf(Controller, 1, steady))
    /\ ctlOp' = [op |-> "RunFrame", button |-> "system",
                 met |-> {q \in promises : q.until <= steady}]
    /\ promises' = {q \in promises : q.until > steady}
    /\ UNCHANGED <<steady, clicks>>
    /\ CtlFrame

\* the steady clock moves on
SteadyTick ==
    /\ steady < MaxSteady * ClockStep
    /\ steady' = steady + ClockStep
    /\ UNCHANGED <<systemButtonPressed_, aButtonPressed_, triggerPressed_,
                   pendingReleases_, reported, ctlOp, promises, clicks>>
    /\ CtlFrame

(***************************************************************************)
(* HttpServer (driver/src/http_server.cpp): Start on the caller's thread   *)
(* and ServerThread on the thread Start creates.  The httplib server is    *)
(* taken to be valid when created.  bind_to_port succeeds or fails as the  *)
(* port is free or in use; listen_after_bind blocks until the server is    *)
(* stopped or fails.  The 200 ms sleep of Start ends at any point of the   *)
(* server thread's progress.                                               *)
(***************************************************************************)
kPortRangeStart == 27015

kPortRangeEnd == 27025

\* what the calls on the HttpServer leave alone
HttpFrame ==
    UNCHANGED <<smVars, detVars, histVars, scoreVars, trainVars, ptVars,
                persistVars, concVars, appVars, uiVars, bufVars, ctlVars>>

\* Start lines 38-58: already running, or the range of ports to try
StartBegins ==
    /\ starter.pc = "idle"
    /\ starter' = IF running_
                  THEN [starter EXCEPT !.pc = "returned", !.ret = TRUE,
                                       !.sawRunning = TRUE]
                  ELSE [starter EXCEPT
                          !.pc = "spawn", !.tryPort = port_,
                          !.startPort = port_,
                          !.endPort = port_ + (kPortRangeEnd - kPortRangeStart)]
    /\ UNCHANGED <<port_, running_, serverThread_>>
    /\ HttpFrame

\* Start lines 61-69: the loop test, then port_ is set, the server thread
\* created and the sleep begun; lines 91-95 when the range is used up
StartTriesPort ==
    /\ starter.pc = "spawn"
    /\ IF starter.tryPort <= starter.endPort
       THEN /\ port_' = starter.tryPort
            /\ serverThread_' = "starting"
            /\ starter' = [starter EXCEPT !.pc = "sleeping"]
       ELSE /\ starter' = [starter EXCEPT !.pc = "returned", !.ret = FALSE]
            /\ UNCHANGED <<port_, serverThread_>>
    /\ UNCHANGED running_
    /\ HttpFrame

\* Start lines 69-79: the sleep ends and running_ is read; set, Start returns
\* true (97-98), clear, Start goes on to join the server thread
StartWakes ==
    /\ starter.pc = "sleeping"
    /\ starter' = IF running_
                  THEN [starter EXCEPT !.pc = "returned", !.ret = TRUE,
                                       !.sawRunning = TRUE]
                  ELSE [starter EXCEPT !.pc = "joining"]
    /\ UNCHANGED <<port_, running_, serverThread_>>
    /\ HttpFrame

\* Start lines 78-89: join returns once the server thread has ended; the
\* server is created anew and the loop goes to the next port
StartJoins ==
    /\ starter.pc = "joining"
    /\ serverThread_ = "exited"
    /\ serverThread_' = "none"
    /\ starter' = [starter EXCEPT !.pc = "spawn", !.tryPort = @ + 1]
    /\ UNCHANGED <<port_, running_>>
    /\ HttpFrame

\* ServerThread lines 261-276: bind_to_port; a port in use clears running_
\* and ends the thread
ThreadBinds(free) ==
    /\ serverThread_ = "starting"
    /\ IF free
       THEN serverThread_' = "bound" /\ UNCHANGED running_
       ELSE serverThread_' = "exited" /\ running_' = FALSE
    /\ UNCHANGED <<port_, starter>>
    /\ HttpFrame

\* ServerThread lines 278-282: running_ is set and listen_after_bind entered
ThreadListens ==
    /\ serverThread_ = "bound"
    /\ running_' = TRUE
    /\ serverThread_' = "listening"
    /\ UNCHANGED <<port_, starter>>
    /\ HttpFrame

\* ServerThread lines 282-289: listen_after_bind fails, running_ is cleared
\* and the thread ends.  Nothing calls stop() while Start runs
ThreadListenFails ==
    /\ serverThread_ = "listening"
    /\ running_' = FALSE
    /\ serverThread_' = "exited"
    /\ UNCHANGED <<port_, starter>>
    /\ HttpFrame

(***************************************************************************)
(* Specifications.  Each follows one component; the other stays as         *)
(* constructed.                                                            *)
(***************************************************************************)
\* the configuration of the state machine that stays as constructed
IdleConfig ==
    [minDetectionDuration |-> 0, cooldownDuration |-> 0,
     detectionThreshold |-> Float(70)]

\* a state machine constructed with any configuration
SMInit ==
    /\ \E c \in Configs : SMConstructed(c)
    /\ DetStartsAs(Constructed)
    /\ ScoreStartsAs(FALSE, 0)
    /\ TrainStartsAs(ConstructedTrainer(0))
    /\ TrainerStartsAs(TrainerConfig)
    /\ DiskStartsAs(NoFile)
    /\ ThreadsStartAs(NoProfiles)
    /\ HostStartsAs(DEFAULT_MIN_DETECTION_DURATION_MS)

SMSpec == SMInit /\ [][SMNext]_vars

\* a state machine constructed with any configuration, which then stays; the
\* trigger callback is registered or not, and update is called
PacedInit ==
    /\ \E c \in Configs : SMConstructed(c)
    /\ DetStartsAs(Constructed)
    /\ ScoreStartsAs(FALSE, 0)
    /\ TrainStartsAs(ConstructedTrainer(0))
    /\ TrainerStartsAs(TrainerConfig)
    /\ DiskStartsAs(NoFile)
    /\ ThreadsStartAs(NoProfiles)
    /\ HostStartsAs(DEFAULT_MIN_DETECTION_DURATION_MS)

\* a confidence below every threshold and one at or above every threshold
PacedConfidences == {Float(30), Float(90)}

PacedNext ==
    \/ \E conf \in PacedConfidences, dt \in DeltaTimes : UpdateTimed(conf, dt)
    \/ \E b \in BOOLEAN : SetTriggerCallback(b)

PacedSpec == PacedInit /\ [][PacedNext]_vars

\* a detector from InitialDetectors
DetInit ==
    /\ \E d \in InitialDetectors : DetStartsAs(d) /\ TrainStartsAs(TrainerOf(d, 0))
    /\ SMConstructed(IdleConfig)
    /\ ScoreStartsAs(FALSE, 0)
    /\ TrainerStartsAs(TrainerConfig)
    /\ DiskStartsAs(NoFile)
    /\ ThreadsStartAs(NoProfiles)
    /\ HostStartsAs(DEFAULT_MIN_DETECTION_DURATION_MS)

DetSpec == DetInit /\ [][DetNext]_vars

\* blocks of two kinds: quiet with low confidence, loud with high confidence
HistBlocks ==
    {EmptyBlock,
     Block(SPIKE_DB, HIGH_CONFIDENCE - 10),
     Block(SPIKE_DB + 5, HIGH_CONFIDENCE)}

\* a detector just constructed, with or without a profile, and nothing logged
HistInit ==
    /\ \E d \in {Constructed, [Constructed EXCEPT !.hasTrainingData = TRUE]} :
          DetStartsAs(d) /\ TrainStartsAs(TrainerOf(d, 0))
    /\ SMConstructed(IdleConfig)
    /\ ScoreStartsAs(FALSE, 0)
    /\ TrainerStartsAs(TrainerConfig)
    /\ DiskStartsAs(NoFile)
    /\ ThreadsStartAs(NoProfiles)
    /\ HostStartsAs(DEFAULT_MIN_DETECTION_DURATION_MS)

HistNext == \E b \in HistBlocks : AnalyzeLogged(b)

HistSpec == HistInit /\ [][HistNext]_vars

\* the score of any ratio, with the energy threshold set or not
RatioInit ==
    /\ \E th \in BOOLEAN, r \in Ratios : ScoreStartsAs(th, r)
    /\ SMConstructed(IdleConfig)
    /\ DetStartsAs(Constructed)
    /\ TrainStartsAs(ConstructedTrainer(0))
    /\ TrainerStartsAs(TrainerConfig)
    /\ DiskStartsAs(NoFile)
    /\ ThreadsStartAs(NoProfiles)
    /\ HostStartsAs(DEFAULT_MIN_DETECTION_DURATION_MS)

RatioNext == \E th \in BOOLEAN, r \in Ratios : ScoreEnergy(th, r)

RatioSpec == RatioInit /\ [][RatioNext]_vars

\* a detector just constructed; its indeterminate floats hold any value
TrainInit ==
    /\ \E g \in Indeterminate : TrainStartsAs(ConstructedTrainer(g))
    /\ DetStartsAs(Constructed)
    /\ SMConstructed(IdleConfig)
    /\ ScoreStartsAs(FALSE, 0)
    /\ TrainerStartsAs(TrainerConfig)
    /\ DiskStartsAs(NoFile)
    /\ ThreadsStartAs(NoProfiles)
    /\ HostStartsAs(DEFAULT_MIN_DETECTION_DURATION_MS)

TrainNext ==
    \/ DetectorStartTraining
    \/ \E sample \in TrainingSamples(Len(trainingSpectra_) + trainings) :
          AddTrainingSample(sample)
    \/ FinishTraining
    \/ \E file \in Files : LoadTrainingData(file)
    \/ \E sensitivity \in Sensitivities : SetSensitivity(sensitivity)
    \/ \E b \in TrainBlocks : AnalyzeBetween(b)

TrainSpec == TrainInit /\ [][TrainNext]_vars

\* a PatternTrainer just constructed, beside a detector that is not used
TrainerInit ==
    /\ TrainerStartsAs(TrainerConfig)
    /\ DiskStartsAs(NoFile)
    /\ ThreadsStartAs(NoProfiles)
    /\ HostStartsAs(DEFAULT_MIN_DETECTION_DURATION_MS)
    /\ DetStartsAs(Constructed)
    /\ TrainStartsAs(ConstructedTrainer(0))
    /\ SMConstructed(IdleConfig)
    /\ ScoreStartsAs(FALSE, 0)

TrainerNext ==
    \/ TrainerStartTraining
    \/ \E sample \in TrainerSamples : AddSample(sample)
    \/ TrainerFinishTraining
    \/ CancelTraining
    \/ Tick

TrainerSpec == TrainerInit /\ [][TrainerNext]_vars

\* a detector from Persisting, and no file at the path
PersistInit ==
    /\ \E p \in Persisting :
          /\ TrainStartsFrom(p.t, p.from)
          /\ DetStartsAs([Constructed EXCEPT
                            !.hasTrainingData = p.t.hasTrainingData])
    /\ DiskStartsAs(NoFile)
    /\ ThreadsStartAs(NoProfiles)
    /\ HostStartsAs(DEFAULT_MIN_DETECTION_DURATION_MS)
    /\ TrainerStartsAs(TrainerConfig)
    /\ SMConstructed(IdleConfig)
    /\ ScoreStartsAs(FALSE, 0)

PersistNext ==
    \/ \E io \in IoOutcomes : SaveTrainingData(io)
    \/ \E file \in Files \cup {disk} : LoadObserved(file)

PersistSpec == PersistInit /\ [][PersistNext]_vars

\* a detector from Concurrent, called from the capture thread and the control
\* thread
ConcInit ==
    /\ \E t \in Concurrent :
          /\ TrainStartsAs(t)
          /\ DetStartsAs([Constructed EXCEPT
                            !.hasTrainingData = t.hasTrainingData])
          /\ ThreadsStartAs(IF t.hasTrainingData
                            THEN {ProfileOfData(t.trainingData)}
                            ELSE NoProfiles)
    /\ HostStartsAs(DEFAULT_MIN_DETECTION_DURATION_MS)
    /\ DiskStartsAs(NoFile)
    /\ TrainerStartsAs(TrainerConfig)
    /\ SMConstructed(IdleConfig)
    /\ ScoreStartsAs(FALSE, 0)

ConcNext ==
    \/ \E th \in Threads : \E call \in CallsOf(th) : Begin(th, call)
    \/ \E th \in Threads : Acquire(th)
    \/ \E th \in Threads : StartAccess(th)
    \/ \E th \in Threads : FinishAccess(th)
    \/ \E th \in Threads : Return(th)

ConcSpec == ConcInit /\ [][ConcNext]_vars

\* the application after initialize(), the detector with or without a profile
\* loaded
AppInit ==
    /\ \E d \in {Constructed, [Constructed EXCEPT !.hasTrainingData = TRUE]} :
          DetStartsAs(d) /\ TrainStartsAs(TrainerOf(d, 0))
    /\ AppStateMachine(AppConfig)
    /\ AppStartsAs(DEFAULT_MIN_DETECTION_DURATION_MS)
    /\ UiStartsAs(TRUE)
    /\ ApartStartsAs(1)
    /\ ScoreStartsAs(FALSE, 0)
    /\ TrainerStartsAs(TrainerConfig)
    /\ DiskStartsAs(NoFile)
    /\ ThreadsStartAs(NoProfiles)

AppNext == \E b \in AppBlocks : AudioCallback(b)

AppSpec == AppInit /\ [][AppNext]_vars

\* the application after initialize() with capture running or not started,
\* the UI thread and the capture thread taking steps in any order
UiInit ==
    /\ DetStartsAs(Constructed)
    /\ TrainStartsAs(TrainerOf(Constructed, 0))
    /\ AppStateMachine(AppConfig)
    /\ AppStartsAs(DEFAULT_MIN_DETECTION_DURATION_MS)
    /\ \E started \in BOOLEAN : UiStartsAs(started)
    /\ ApartStartsAs(1)
    /\ ScoreStartsAs(FALSE, 0)
    /\ TrainerStartsAs(TrainerConfig)
    /\ DiskStartsAs(NoFile)
    /\ ThreadsStartAs(NoProfiles)

UiNext ==
    \/ CallbackEnter
    \/ CallbackCall
    \/ CallbackReturn
    \/ CallbackLastCall
    \/ CallbackExit
    \/ CaptureLoopEnds
    \/ DeviceChangeStops
    \/ \E usable \in BOOLEAN : DeviceChangeReplaces(usable)
    \/ DeviceChangeStarts
    \/ \E usable \in BOOLEAN : Clear(usable)
    \/ TrainingButton

UiSpec == UiInit /\ [][UiNext]_vars

\* the rest of the program while a component apart from it is followed
RestStarts ==
    /\ DetStartsAs(Constructed)
    /\ TrainStartsAs(TrainerOf(Constructed, 0))
    /\ SMConstructed(IdleConfig)
    /\ AppStartsAs(DEFAULT_MIN_DETECTION_DURATION_MS)
    /\ UiStartsAs(TRUE)
    /\ ScoreStartsAs(FALSE, 0)
    /\ TrainerStartsAs(TrainerConfig)
    /\ DiskStartsAs(NoFile)
    /\ ThreadsStartAs(NoProfiles)

\* an AudioBuffer of any capacity, called from one thread
BufInit ==
    /\ RestStarts
    /\ CtlStartsAs(0)
    /\ HttpStartsAs(DEFAULT_PORT)
    /\ \E capacity \in 0..MaxCapacity : BufStartsAs(capacity)

BufNext ==
    \/ \E count \in 0..MaxRequest : Write(count)
    \/ \E count \in 0..MaxRequest : Read(count)
    \/ \E count \in 0..MaxRequest : Peek(count)

BufSpec == BufInit /\ [][BufNext]_vars

\* an AudioBuffer shared by a writing thread, a reading thread and a thread
\* that asks for its fill
BufConcInit ==
    /\ RestStarts
    /\ CtlStartsAs(0)
    /\ HttpStartsAs(DEFAULT_PORT)
    /\ \E capacity \in {1, MaxCapacity} : BufStartsAs(capacity)

BufConcNext ==
    \/ \E count \in 1..MaxCapacity : Write(count)
    \/ \E count \in 1..MaxCapacity : Read(count)
    \/ \E fn \in {"available", "space", "empty", "full"},
          writeFirst \in BOOLEAN : ObsBegin(fn, writeFirst)
    \/ ObsLoadFirst
    \/ ObsLoadSecond
    \/ ObsReturn

BufConcSpec == BufConcInit /\ [][BufConcNext]_vars

\* an active VirtualController, activated at any time of the steady clock
CtlInit ==
    /\ RestStarts
    /\ BufStartsAs(1)
    /\ HttpStartsAs(DEFAULT_PORT)
    /\ \E t \in {0, ClockStep} : CtlStartsAs(t)

CtlNext ==
    \/ \E b \in Buttons : Press(b)
    \/ \E b \in Buttons : Release(b)
    \/ \E b \in Buttons, durationMs \in ClickDurations : Click(b, durationMs)
    \/ RunFrame
    \/ SteadyTick

CtlSpec == CtlInit /\ [][CtlNext]_vars

\* an HttpServer constructed for the default port or another, Start called
\* once
HttpInit ==
    /\ RestStarts
    /\ BufStartsAs(1)
    /\ CtlStartsAs(0)
    /\ \E port \in {DEFAULT_PORT, DEFAULT_PORT + 1} : HttpStartsAs(port)

HttpNext ==
    \/ StartBegins
    \/ StartTriesPort
    \/ StartWakes
    \/ StartJoins
    \/ \E free \in BOOLEAN : ThreadBinds(free)
    \/ ThreadListens
    \/ ThreadListenFails

HttpSpec == HttpInit /\ [][HttpNext]_vars

\* Start's own steps are taken when they can be (the sleep ends, join returns
\* when the thread has ended), and the server thread is scheduled until it
\* blocks in listen_after_bind; a listening server need never fail
HttpFairSpec ==
    /\ HttpSpec
    /\ WF_vars(StartBegins)
    /\ WF_vars(StartTriesPort)
    /\ WF_vars(StartWakes)
    /\ WF_vars(StartJoins)
    /\ WF_vars(\E free \in BOOLEAN : ThreadBinds(free))
    /\ WF_vars(ThreadListens)

(***************************************************************************)
(* Claims about the TriggerStateMachine, checked under SMSpec.             *)
(* A callback can be invoked only while one is registered, so the claims   *)
(* about invocations are stated for a registered callback.                 *)
(***************************************************************************)
\* the last call was update, made in state s
UpdatedFrom(s) == smOp.op = "update" /\ smOp.pre = s

\* time-in-state of the last update, its deltaTime included
TimeWithDelta == smOp.preTime + smOp.dt

\* C1: update in Detecting with confidence >= detectionThreshold moves to
\* Triggered exactly when time-in-state, this update's deltaTime included, is
\* >= minDetectionDuration; the trigger callback is invoked exactly once for
\* each entry into Triggered, and by no other call or transition.
C1_DetectingToTriggered ==
    /\ (UpdatedFrom("Detecting") /\ FloatGE(smOp.conf, config_.detectionThreshold))
          => (currentState_ = "Triggered"
                <=> TimeWithDelta >= config_.minDetectionDuration)
    /\ (currentState_ = "Triggered" /\ smOp.pre # "Triggered" /\ triggerCallback_)
          => Triggers(smEvents) = 1
    /\ Triggers(smEvents) > 0
          => /\ Triggers(smEvents) = 1
             /\ UpdatedFrom("Detecting")
             /\ currentState_ = "Triggered"

C1_Witness ==
    /\ UpdatedFrom("Detecting")
    /\ smOp.conf = Float(70)
    /\ TimeWithDelta = config_.minDetectionDuration
    /\ smOp.dt > 0
    /\ currentState_ = "Triggered"
    /\ Triggers(smEvents) = 1

\* C2: in Triggered the next update moves to Cooldown, for every confidence
\* and deltaTime, and does not invoke the trigger callback.
C2_TriggeredToCooldown ==
    UpdatedFrom("Triggered")
       => currentState_ = "Cooldown" /\ Triggers(smEvents) = 0

C2_Witness ==
    /\ UpdatedFrom("Triggered")
    /\ smOp.conf = Float(90)
    /\ triggerCallback_
    /\ currentState_ = "Cooldown"

\* C3: in Cooldown update moves to Idle exactly when time-in-state >=
\* cooldownDuration, whatever the confidence; it never moves to Detecting or
\* Triggered and never invokes the trigger callback.
C3_CooldownToIdle ==
    UpdatedFrom("Cooldown")
       => /\ currentState_ = "Idle" <=> TimeWithDelta >= config_.cooldownDuration
          /\ currentState_ \in {"Cooldown", "Idle"}
          /\ Triggers(smEvents) = 0

C3_Witness ==
    /\ UpdatedFrom("Cooldown")
    /\ FloatGE(smOp.conf, config_.detectionThreshold)
    /\ triggerCallback_
    /\ TimeWithDelta = config_.cooldownDuration
    /\ smOp.dt > 0
    /\ currentState_ = "Idle"

\* C4: in Detecting every update with confidence < detectionThreshold moves to
\* Idle and does not invoke the trigger callback, also when time-in-state has
\* reached minDetectionDuration with that update.
C4_DetectingToIdle ==
    (UpdatedFrom("Detecting") /\ FloatLT(smOp.conf, config_.detectionThreshold))
       => currentState_ = "Idle" /\ Triggers(smEvents) = 0

C4_Witness ==
    /\ UpdatedFrom("Detecting")
    /\ FloatLT(smOp.conf, config_.detectionThreshold)
    /\ triggerCallback_
    /\ TimeWithDelta >= config_.minDetectionDuration
    /\ currentState_ = "Idle"

\* C5 as stated: starting from Idle, updates that all carry confidence 0.9
\* and whose deltaTimes sum to exactly minDetectionDuration invoke the trigger
\* callback exactly once.  (Stated here for minDetectionDuration > 0 only.)
C5_Original ==
    (/\ run.active
     /\ config_.minDetectionDuration > 0
     /\ run.sum = config_.minDetectionDuration)
       => run.fired = 1

\* C5 (amended): the first update of the run enters Detecting and its
\* deltaTime is not counted.  When the run has at least two updates, the
\* deltaTimes after the first sum to exactly minDetectionDuration, and
\* minDetectionDuration and cooldownDuration are not both zero, the trigger
\* callback has been invoked exactly once.
C5_TriggerOnceAfterFirst ==
    (/\ run.active
     /\ run.len >= 2
     /\ run.sum - run.first = config_.minDetectionDuration
     /\ config_.minDetectionDuration + config_.cooldownDuration > 0)
       => run.fired = 1

C5_Witness ==
    /\ run.active
    /\ run.len >= 2
    /\ run.first > 0
    /\ config_.minDetectionDuration > 0
    /\ run.sum - run.first = config_.minDetectionDuration
    /\ UpdatedFrom("Detecting")
    /\ currentState_ = "Triggered"
    /\ run.fired = 1

\* C6 as stated: within one maximal run of consecutive updates whose
\* confidence is >= detectionThreshold, Triggered is entered at most once,
\* however long the run lasts.  (Stated here for positive durations only.)
C6_Original ==
    (config_.minDetectionDuration > 0 /\ config_.cooldownDuration > 0)
       => streak.entries <= 1

\* C6 (amended): within a streak Triggered is entered at most once per visit
\* to Detecting; a further entry into Triggered in the same streak comes only
\* after the machine went through Cooldown, Idle and Detecting again.
C6_OncePerDetectingVisit ==
    (/\ streak.entries >= 2
     /\ streak.lap # <<>>
     /\ streak.lap[Len(streak.lap)] = "Triggered")
       => streak.lap = <<"Cooldown", "Idle", "Detecting", "Triggered">>

C6_Witness ==
    /\ streak.entries >= 2
    /\ UpdatedFrom("Detecting")
    /\ currentState_ = "Triggered"
    /\ streak.lap = <<"Cooldown", "Idle", "Detecting", "Triggered">>

\* C7: a call that changes the state sets time-in-state to zero and delivers
\* exactly one state-change notification, carrying (state before, state
\* after); a call that leaves the state unchanged delivers none.
C7_TransitionNotifies ==
    /\ currentState_ # smOp.pre => timeInState_ = 0
    /\ (currentState_ # smOp.pre /\ stateChangeCallback_)
          => Notifications(smEvents) = <<StateChangeEvent(smOp.pre, currentState_)>>
    /\ currentState_ = smOp.pre
          => /\ Notifications(smEvents) = <<>>
             /\ smOp.op \in {"startTraining", "stopTraining", "reset"}
                   => timeInState_ = smOp.preTime

C7_Witness ==
    /\ smOp.op = "reset"
    /\ smOp.pre = "Detecting"
    /\ smOp.preTime > 0
    /\ stateChangeCallback_
    /\ currentState_ = "Idle"
    /\ timeInState_ = 0
    /\ Len(smEvents) = 1

\* C8: in Training, update with any confidence and deltaTime leaves the state
\* Training and invokes neither callback.
C8_TrainingInert ==
    UpdatedFrom("Training") => currentState_ = "Training" /\ smEvents = <<>>

C8_Witness ==
    /\ UpdatedFrom("Training")
    /\ smOp.conf = Float(90)
    /\ smOp.dt > 0
    /\ triggerCallback_
    /\ stateChangeCallback_
    /\ timeInState_ >= config_.minDetectionDuration
    /\ currentState_ = "Training"

\* C9 as stated: the state becomes Training only by startTraining and stops
\* being Training only by stopTraining.
C9_Original ==
    /\ (currentState_ = "Training" /\ smOp.pre # "Training")
          => smOp.op = "startTraining"
    /\ (currentState_ # "Training" /\ smOp.pre = "Training")
          => smOp.op = "stopTraining"

\* C9 (amended): the state becomes Training only by startTraining and stops
\* being Training only by stopTraining or reset; update and configure neither
\* enter nor leave Training.
C9_TrainingOnlyExplicit ==
    /\ (currentState_ = "Training" /\ smOp.pre # "Training")
          => smOp.op = "startTraining"
    /\ (currentState_ # "Training" /\ smOp.pre = "Training")
          => smOp.op \in {"stopTraining", "reset"}

C9_Witness ==
    /\ smOp.op = "reset"
    /\ smOp.pre = "Training"
    /\ currentState_ = "Idle"

(***************************************************************************)
(* Claims about the Detector, checked under DetSpec.                       *)
(***************************************************************************)
\* the last call was analyze
Analyzed == detOp.op = "analyze"

\* time from the first of the latest consecutive analyze calls with instant
\* detection to the last call
HeldFor == detOp.at - held.since

\* C10: analyze returns isWhiteNoise = true only if instant detection was true
\* on every block since the streak began and the streak began at least
\* minDetectionDurationMs earlier; with minDetectionDurationMs = 300 never
\* earlier than 300 ms after the streak's first block.
C10_TemporalGate ==
    (Analyzed /\ detOp.isWhiteNoise)
       => /\ detOp.instantDetection
          /\ held.len >= 1
          /\ HeldFor >= minDetectionDurationMs_
          /\ minDetectionDurationMs_ = DEFAULT_MIN_DETECTION_DURATION_MS
                => HeldFor >= DEFAULT_MIN_DETECTION_DURATION_MS

C10_Witness ==
    /\ Analyzed
    /\ detOp.isWhiteNoise
    /\ minDetectionDurationMs_ = DEFAULT_MIN_DETECTION_DURATION_MS
    /\ held.len >= 2
    /\ HeldFor >= DEFAULT_MIN_DETECTION_DURATION_MS
    /\ HeldFor < DEFAULT_MIN_DETECTION_DURATION_MS + ClockStep

\* the last analyze call was given a block above the spike bound
LoudBlock == ~detOp.block.empty /\ detOp.block.energyDb > SPIKE_DB

\* age of the spike the last analyze call found armed
SpikeAge == detOp.at - detOp.wasSpikeTime

\* C11: an analyze call whose instant detection is false ends the streak and
\* returns isWhiteNoise = false; the first later call with instant detection
\* restarts the duration clock at its own time, and isWhiteNoise is true only
\* once minDetectionDurationMs has passed on that restarted clock.
C11_BreakRestartsClock ==
    /\ isCurrentlyDetecting_ <=> held.len >= 1
    /\ isCurrentlyDetecting_ => detectionStartTime_ = held.since
    /\ (Analyzed /\ ~detOp.instantDetection)
          => ~isCurrentlyDetecting_ /\ ~detOp.isWhiteNoise
    /\ (Analyzed /\ held.len = 1)
          => /\ detectionStartTime_ = detOp.at
             /\ detOp.isWhiteNoise => minDetectionDurationMs_ = 0
    /\ (Analyzed /\ detOp.isWhiteNoise)
          => detOp.at - detectionStartTime_ >= minDetectionDurationMs_

C11_Witness ==
    /\ Analyzed
    /\ past.streaks = 2
    /\ held.len = 1
    /\ detOp.at >= DEFAULT_MIN_DETECTION_DURATION_MS
    /\ minDetectionDurationMs_ = DEFAULT_MIN_DETECTION_DURATION_MS
    /\ detectionStartTime_ = detOp.at
    /\ ~detOp.isWhiteNoise

C13_Original ==
    /\ (Analyzed /\ detOp.wasDetecting /\ detOp.scored
               /\ detOp.highHits >= stopThreshold)
          => /\ isCurrentlyDetecting_
             /\ detOp.wasWhite => detOp.isWhiteNoise
    /\ (Analyzed /\ detOp.wasDetecting /\ ~isCurrentlyDetecting_)
          => \/ detOp.block.empty
             \/ detOp.scored /\ detOp.highHits < stopThreshold

\* C13 (amended): while a streak is active, a block with highHits >= 2 keeps
\* the streak alive and its start time unchanged, whether or not the spike is
\* valid and the block is high-confidence, and keeps an already true
\* isWhiteNoise true unless minDetectionDurationMs has meanwhile been raised
\* above the streak's age; the streak ends only on a block with highHits < 2
\* or on an empty block.
C13_Hysteresis ==
    /\ (Analyzed /\ detOp.wasDetecting /\ detOp.scored
               /\ detOp.highHits >= stopThreshold)
          => /\ isCurrentlyDetecting_
             /\ held.len >= 2
             /\ detectionStartTime_ = held.since
             /\ (detOp.wasWhite /\ minDetectionDurationMs_ <= HeldFor)
                   => detOp.isWhiteNoise
    /\ (Analyzed /\ detOp.wasDetecting /\ ~isCurrentlyDetecting_)
          => \/ detOp.block.empty
             \/ detOp.scored /\ detOp.highHits < stopThreshold

C13_Witness ==
    /\ Analyzed
    /\ detOp.wasDetecting
    /\ detOp.wasWhite
    /\ detOp.scored
    /\ ~detOp.spikeValid
    /\ detOp.block.conf < HIGH_CONFIDENCE
    /\ detOp.highHits >= stopThreshold
    /\ detOp.highHits < startThreshold
    /\ minDetectionDurationMs_ = DEFAULT_MIN_DETECTION_DURATION_MS
    /\ detOp.isWhiteNoise

C16_EmptyBlock ==
    (Analyzed /\ detOp.block.empty)
       => /\ detOp.confidence = 0
          /\ ~detOp.isWhiteNoise
          /\ ~detOp.scored

C16_Witness ==
    /\ Analyzed
    /\ detOp.block.empty
    /\ hasTrainingData_
    /\ detOp.wasDetecting
    /\ detOp.wasWhite
    /\ detOp.confidence = 0
    /\ ~detOp.isWhiteNoise

\* C17: with a profile and no streak, a scored block that finds the spike
\* valid and highHits >= 4 begins a streak; every later scored block with
\* highHits >= 2 continues it; and each block of the streak returns
\* isWhiteNoise = true exactly when the streak began at least
\* minDetectionDurationMs before it, so isWhiteNoise turns from false to true
\* at the first such block.
C17_ConfirmedAfterMin ==
    /\ (Analyzed /\ detOp.scored /\ ~detOp.wasDetecting
               /\ detOp.wasArmed /\ SpikeAge < SPIKE_WINDOW_MS
               /\ CountHighConfidenceHits(Detector) >= startThreshold)
          => detOp.instantDetection /\ held.len = 1
    /\ (Analyzed /\ detOp.scored /\ detOp.wasDetecting
               /\ CountHighConfidenceHits(Detector) >= stopThreshold)
          => detOp.instantDetection /\ held.len >= 2
    /\ (Analyzed /\ detOp.instantDetection)
          => (detOp.isWhiteNoise <=> HeldFor >= minDetectionDurationMs_)

C17_Witness ==
    /\ Analyzed
    /\ hasTrainingData_
    /\ held.len >= 2
    /\ detOp.highHits < startThreshold
    /\ ~detOp.wasWhite
    /\ detOp.isWhiteNoise
    /\ minDetectionDurationMs_ = DEFAULT_MIN_DETECTION_DURATION_MS
    /\ HeldFor = DEFAULT_MIN_DETECTION_DURATION_MS
    /\ blocks > MaxCount

(***************************************************************************)
(* Claims about the histories of the Detector, checked under HistSpec.     *)
(***************************************************************************)
\* the last Min(Len(seq), k) elements of seq
Recent(seq, k) ==
    IF Len(seq) <= k THEN seq ELSE SubSeq(seq, Len(seq) - k + 1, Len(seq))

\* a ring, read from its oldest slot; index is the slot overwritten next
Unrolled(ring, index) ==
    SubSeq(ring, index + 1, Len(ring)) \o SubSeq(ring, 1, index)

LoggedFlags == [i \in 1..Len(scoredLog) |-> scoredLog[i].conf >= HIGH_CONFIDENCE]
LoggedEnergies == [i \in 1..Len(scoredLog) |-> scoredLog[i].energyDb]

TrueFlags(flags) == Cardinality({i \in 1..Len(flags) : flags[i]})

\* C18: after n analyze calls that reached the scoring, ConfidenceHistory
\* holds the high-confidence flags of the latest min(n, 12) of those blocks,
\* oldest first from the slot written next, highHits is the number of true
\* flags among them, and EnergyHistory holds the energies of the latest
\* min(n, 10) of those blocks.
C18_Histories ==
    /\ Len(confidenceHistory_) = Min(Len(scoredLog), CONFIDENCE_HISTORY_SIZE)
    /\ Unrolled(confidenceHistory_, confidenceHistoryIndex_)
          = Recent(LoggedFlags, CONFIDENCE_HISTORY_SIZE)
    /\ CountHighConfidenceHits(Detector)
          = TrueFlags(Recent(LoggedFlags, CONFIDENCE_HISTORY_SIZE))
    /\ (Analyzed /\ detOp.scored)
          => detOp.highHits
                = TrueFlags(Recent(LoggedFlags, CONFIDENCE_HISTORY_SIZE))
    /\ Len(energyHistory_) = Min(Len(scoredLog), ENERGY_HISTORY_SIZE)
    /\ Unrolled(energyHistory_, energyHistoryIndex_)
          = Recent(LoggedEnergies, ENERGY_HISTORY_SIZE)

C18_Witness ==
    /\ Analyzed
    /\ detOp.scored
    /\ Len(scoredLog) > CONFIDENCE_HISTORY_SIZE
    /\ blocks > Len(scoredLog)
    /\ scoredLog[1].conf >= HIGH_CONFIDENCE
    /\ scoredLog[Len(scoredLog)].conf < HIGH_CONFIDENCE
    /\ confidenceHistoryIndex_ > 0
    /\ energyHistoryIndex_ > confidenceHistoryIndex_
    /\ detOp.highHits = startThreshold

(***************************************************************************)
(* Claims about the energy-ratio score, checked under RatioSpec.           *)
(***************************************************************************)
\* C19: with the energy threshold set, the energy-ratio score is 0 for
\* ratio < 0.3 and for ratio > 5.0, rises linearly from 0 at ratio 0.3 to 0.8
\* as ratio approaches 1.0, and for ratio in [1.0, 5.0] lies in [0.8, 1] and
\* is non-decreasing in ratio.
C19_EnergyRatioRamp ==
    ratioCall.thresholdSet
       => /\ (ratioCall.ratio < 30 \/ ratioCall.ratio > 500)
                => ratioCall.energyRatio = 0
          /\ (ratioCall.ratio >= 30 /\ ratioCall.ratio < 100)
                => ratioCall.energyRatio * 70 * 100
                      = (ratioCall.ratio - 30) * 80 * ScoreOne
          /\ (ratioCall.ratio >= 100 /\ ratioCall.ratio <= 500)
                => /\ ratioCall.energyRatio * 100 >= 80 * ScoreOne
                   /\ ratioCall.energyRatio <= ScoreOne
                   /\ (ratioBefore.thresholdSet /\ ratioBefore.ratio >= 100)
                         => ratioBefore.energyRatio <= ratioCall.energyRatio

(***************************************************************************)
(* Claims about training and persistence, checked under TrainSpec.         *)
(***************************************************************************)
\* C15: on a detector on which no finishTraining and no loadTrainingData has
\* ever returned true, analyze returns confidence 0 and isWhiteNoise false,
\* whatever the block and whatever was called before.
C15_UntrainedSilent ==
    (Analyzed /\ ~everTrained)
       => /\ detOp.confidence = 0
          /\ ~detOp.isWhiteNoise

\* analyze is given a loud, matching block after a training that failed and a
\* load that failed on a short file, which left a profile behind
C15_Witness ==
    /\ Analyzed
    /\ ~everTrained
    /\ detOp.block = Block(SPIKE_DB + 5, HIGH_CONFIDENCE)
    /\ trainings > 0
    /\ ~training_
    /\ trainingData_.spectralProfile # <<>>
    /\ detOp.confidence = 0

\* the profile of the samples: the element-wise average of their magnitude
\* spectra, normalised
ProfileOf(samples) ==
    LET spectra == [i \in 1..Len(samples) |-> samples[i].magnitudes]
        summed == Accumulate(Resize(<<>>, Len(spectra[1])), spectra)
    IN NormalizeVector([i \in 1..Len(summed) |-> summed[i] \div Len(samples)])

\* C20: finishTraining called in training mode returns true iff at least 5
\* samples were accepted since the latest startTraining; when it returns false
\* the profile, the thresholds and hasTrainingData are as before the call;
\* when it returns true hasTrainingData is true and the profile is the one
\* computed from the accepted samples.
C20_FinishTraining ==
    (trainOp.op = "finishTraining" /\ trainOp.before.training)
       => /\ trainOp.ret <=> Len(trainOp.accepted) >= 5
          /\ ~trainOp.ret
                => /\ trainingData_ = trainOp.before.trainingData
                   /\ spectralFlatnessThreshold_
                         = trainOp.before.spectralFlatnessThreshold
                   /\ energyMinThreshold_ = trainOp.before.energyMinThreshold
                   /\ energyVarianceThreshold_
                         = trainOp.before.energyVarianceThreshold
                   /\ hasTrainingData_ = trainOp.before.hasTrainingData
          /\ trainOp.ret
                => /\ hasTrainingData_
                   /\ trainingData_.spectralProfile = ProfileOf(trainOp.accepted)

\* C21: startTraining leaves the accumulation buffers empty and so does a
\* finishTraining that returns true; only the samples accepted since the
\* latest startTraining count toward the minimum of 5 and only they make up
\* the resulting profile.
C21_OnlyThisSession ==
    /\ (trainOp.op = "startTraining"
        \/ (trainOp.op = "finishTraining" /\ trainOp.ret))
          => /\ trainingSpectra_ = <<>>
             /\ trainingEnergies_ = <<>>
             /\ trainingFlatnesses_ = <<>>
    /\ (trainOp.op = "finishTraining" /\ trainOp.before.training)
          => (trainOp.ret <=> Len(trainOp.accepted) >= 5)
    /\ (trainOp.op = "finishTraining" /\ trainOp.ret)
          => trainingData_.spectralProfile = ProfileOf(trainOp.accepted)

\* the last call on the detector was op
Called(op) == trainOp.op = op /\ detOp.op = op

\* addTrainingSample was given a block (non-null, non-empty) of energy above
\* 1e-5 in training mode
GivenSignal ==
    /\ trainOp.before.training
    /\ ~trainOp.sample.null
    /\ trainOp.sample.energy > 10

\* C22: addTrainingSample adds the block to the accumulation exactly when the
\* detector is in training mode, the block is non-null and non-empty and its
\* energy is above 1e-5, whatever its flatness; in every other case the
\* accumulation and all detector state stay as they were.
C22_AddTrainingSample ==
    Called("addTrainingSample")
       => /\ GivenSignal
                => /\ trainingSpectra_
                         = Append(trainOp.before.trainingSpectra,
                                  trainOp.sample.magnitudes)
                   /\ trainingEnergies_
                         = Append(trainOp.before.trainingEnergies,
                                  trainOp.sample.energy)
                   /\ trainingFlatnesses_
                         = Append(trainOp.before.trainingFlatnesses,
                                  trainOp.sample.flatness)
          /\ ~GivenSignal
                => /\ Trainer = trainOp.before
                   /\ Detector = trainOp.gating

\* a tonal block (flatness 0.05) is added as the second sample of a session,
\* on a detector that has analyzed a block
C22_Witness ==
    /\ Called("addTrainingSample")
    /\ GivenSignal
    /\ trainOp.sample.flatness < 100
    /\ Len(trainingSpectra_) = 2
    /\ trainingFlatnesses_[2] = trainOp.sample.flatness
    /\ blocks > 0

\* C24: while the detector holds a profile produced by finishTraining, its
\* correlationThreshold is 0.4 + (1 - sensitivity) x 0.3 for the current
\* sensitivity, whether setSensitivity was called before or after
\* finishTraining.
C24_CorrelationThreshold ==
    profileFrom = "finishTraining"
       => trainingData_.correlationThreshold
             = 400 + ((Milli - sensitivity_) * 3) \div 10

BadFormat ==
    \/ ~trainOp.file.magic
    \/ trainOp.file.version # FORMAT_VERSION
    \/ trainOp.file.profileSize = 0
    \/ trainOp.file.profileSize > MAX_PROFILE_SIZE

\* C26: loadTrainingData of a file with a wrong magic, a version other than 1
\* or a profileSize of 0 or above 100000 returns false and leaves the profile,
\* the thresholds and hasTrainingData as they were.
C26_FormatRejected ==
    (Called("loadTrainingData") /\ BadFormat)
       => /\ ~trainOp.ret
          /\ Trainer = trainOp.before
          /\ Detector = trainOp.gating

\* a file of another version, with other profile values, is given to a
\* detector that holds a profile
C26_Witness ==
    /\ Called("loadTrainingData")
    /\ trainOp.file.opens
    /\ trainOp.file.magic
    /\ trainOp.file.version # 1
    /\ trainOp.file.profileSize = Len(trainOp.file.data)
    /\ trainOp.before.hasTrainingData
    /\ trainOp.before.trainingData.spectralProfile # trainOp.file.data
    /\ ~trainOp.ret

\* the file given to loadTrainingData cannot be opened, or ends before
\* profileSize values
ReadFails ==
    \/ ~trainOp.file.opens
    \/ (~BadFormat /\ Len(trainOp.file.data) < trainOp.file.profileSize)

\* C27: when saveTrainingData or loadTrainingData fails on the file (it cannot
\* be opened, it ends before profileSize values, a write fails), the call
\* returns false and the profile in memory (values, size, thresholds,
\* hasTrainingData) is as before the call.
C27_IoFailureKeepsProfile ==
    /\ (Called("saveTrainingData") /\ trainOp.io # "ok")
          => /\ ~trainOp.ret
             /\ Trainer = trainOp.before
    /\ (Called("loadTrainingData") /\ ReadFails)
          => /\ ~trainOp.ret
             /\ Trainer = trainOp.before

\* the squared L2 norm of v is 1 to within 2 percent
UnitNorm(v) ==
    /\ SumSeq([i \in 1..Len(v) |-> v[i] * v[i]]) >= 980000
    /\ SumSeq([i \in 1..Len(v) |-> v[i] * v[i]]) <= 1020000

\* C30: whenever hasTrainingData is true, the profile has unit L2 norm.
C30_UnitNorm ==
    hasTrainingData_ => UnitNorm(trainingData_.spectralProfile)

(***************************************************************************)
(* Claims about the PatternTrainer, checked under TrainerSpec.             *)
(***************************************************************************)
\* C23: cancelTraining discards the samples accumulated in the session and
\* leaves the profile computed before (spectral profile and energy threshold)
\* as it was before the session began; starting and then cancelling a session
\* changes nothing of the existing profile.
C23_CancelKeepsProfile ==
    ptOp.op = "cancelTraining"
       => /\ impl_.spectra = <<>>
          /\ impl_.energies = <<>>
          /\ impl_.spectralFlatnesses = <<>>
          /\ ProfileHeld(impl_)
                = (IF ptOp.wasTraining THEN ptHeld ELSE ptOp.before)

(***************************************************************************)
(* Claims about the detector called from two threads, checked under        *)
(* ConcSpec.                                                               *)
(***************************************************************************)
\* C28: every public operation reads and writes the detector's members only
\* while it holds mutex_, so the capture thread and the control thread are
\* never inside an access at the same time.
C28_AccessUnderMutex ==
    /\ \A th \in Threads : threads[th].at => mutex_ = th
    /\ ~(threads["capture"].at /\ threads["control"].at)

\* C29: an analyze that scores its block, whatever finishTraining or
\* loadTrainingData the control thread runs beside it, has read the spectrum
\* and the energy threshold of one complete profile, the one held before or
\* the new one, never parts of both.
C29_WholeProfile ==
    (lastAnalyze.returned /\ lastAnalyze.scored)
       => ProfileOfData(lastAnalyze.seen) \in installed

\* analyze was called while finishTraining held mutex_ part way through its
\* writes, and then scored against the profile finishTraining made, which
\* differs from the one before in spectrum and in threshold
C29_Witness ==
    /\ lastAnalyze.returned
    /\ lastAnalyze.scored
    /\ lastAnalyze.waited = "finishTraining"
    /\ Cardinality(installed) = 2
    /\ ProfileOfData(lastAnalyze.seen) \in installed
    /\ ProfileOfData(lastAnalyze.seen) = ProfileOfData(trainingData_)
    /\ \E old \in installed :
          /\ old.spectralProfile # lastAnalyze.seen.spectralProfile
          /\ old.energyThreshold # lastAnalyze.seen.energyThreshold

(***************************************************************************)
(* Claims about the callbacks of the TriggerStateMachine, checked under    *)
(* SMSpec.                                                                 *)
(***************************************************************************)
\* C31: the trigger callback is invoked only inside the update call that
\* takes Detecting to Triggered, after the state-change notification
\* (Detecting, Triggered) has been delivered to a registered state-change
\* callback, and while getCurrentState() returns Triggered; startTraining,
\* stopTraining, reset and configure never invoke it.
C31_TriggerInsideTransition ==
    /\ \A i \in 1..Len(smEvents) :
          smEvents[i].cb = "trigger"
             => /\ UpdatedFrom("Detecting")
                /\ currentState_ = "Triggered"
                /\ smEvents[i].seen = "Triggered"
                /\ stateChangeCallback_
                      => /\ i > 1
                         /\ smEvents[i - 1]
                               = StateChangeEvent("Detecting", "Triggered")
    /\ smOp.op \in {"startTraining", "stopTraining", "reset", "configure"}
          => Triggers(smEvents) = 0

\* the update that takes Detecting to Triggered has notified (Detecting,
\* Triggered) and then invoked the trigger callback
C31_Witness ==
    /\ UpdatedFrom("Detecting")
    /\ currentState_ = "Triggered"
    /\ smEvents = <<StateChangeEvent("Detecting", "Triggered"),
                    TriggerEvent("Triggered")>>

C33_LoudBlockArms ==
    (Analyzed /\ detOp.scored /\ LoudBlock /\ ~detOp.wasDetecting)
       => /\ detOp.spikeValid
          /\ spikeTriggered_

\* C34: right after a successful finishTraining or loadTrainingData, the
\* gating state holds nothing of the blocks scored before: no high-confidence
\* hit is counted, the spike is disarmed and no streak is active.
C34_NewProfileFreshGate ==
    ((Called("finishTraining") \/ Called("loadTrainingData")) /\ trainOp.ret)
       => /\ CountHighConfidenceHits(Detector) = 0
          /\ ~spikeTriggered_
          /\ ~isCurrentlyDetecting_

(***************************************************************************)
(* Claims about the application's audio callback, checked under AppSpec.   *)
(***************************************************************************)
\* C35: one sustained gesture, a run of consecutive blocks that the detector
\* reports as white noise, calls onTrigger at most once, the inline path and
\* the state machine's trigger callback counted together.
C35_OneTriggerPerGesture == gesture.fired <= 1

(***************************************************************************)
(* Claims about the detector instance of the application, checked under    *)
(* UiSpec.                                                                 *)
(***************************************************************************)
\* C36: while the capture thread's audio callback is executing a call on the
\* detector, the instance it calls on is the one the application owns: the UI
\* thread has not destroyed or replaced it.
C36_InstanceAliveUnderCall == InDetectorCall => capture.on = detector

(***************************************************************************)
(* Claims about the AudioBuffer, checked under BufSpec.                    *)
(***************************************************************************)
IsPrefix(a, b) == Len(a) <= Len(b) /\ a = SubSeq(b, 1, Len(a))

\* C37: the AudioBuffer is a FIFO that neither loses nor repeats accepted
\* samples.  write(n) accepts min(n, space()) samples and leaves the unread
\* ones as they were, ahead of the new ones; read(n) returns min(n,
\* available()) samples; the samples returned by read so far are a prefix of
\* the samples accepted so far, the rest of them being the unread content in
\* order; available() stays within 0..capacity(); peek changes nothing and
\* shows the oldest unread samples.
C37_Fifo ==
    /\ 0 <= AvailableOf(Buffer) /\ AvailableOf(Buffer) <= capacity_
    /\ IsPrefix(returned, stored)
    /\ stored = returned \o Unread(Buffer)
    /\ bufOp.op = "write"
          => /\ bufOp.ret = Min(bufOp.count, bufOp.space)
             /\ IsPrefix(bufOp.unread, Unread(Buffer))
             /\ Len(Unread(Buffer)) = Len(bufOp.unread) + bufOp.ret
    /\ bufOp.op = "read"
          => /\ bufOp.ret = Min(bufOp.count, bufOp.available)
             /\ Len(bufOp.data) = bufOp.ret
             /\ bufOp.data = SubSeq(bufOp.unread, 1, bufOp.ret)
    /\ bufOp.op = "peek"
          => /\ Buffer = bufOp.pre
             /\ bufOp.data = SubSeq(bufOp.unread, 1, bufOp.ret)

\* a write that wrapped round the end of the vector was cut short by the
\* space left, and a read has since returned samples across the wrap
C37_Witness ==
    /\ bufOp.op = "read"
    /\ bufOp.ret >= 2
    /\ (bufOp.pre.readPos % capacity_) + bufOp.ret > capacity_
    /\ Len(stored) < offered
    /\ Len(returned) > capacity_

(***************************************************************************)
(* Claims about the AudioBuffer's unlocked observers, checked under        *)
(* BufConcSpec.                                                            *)
(***************************************************************************)
\* C38: with write and read running on other threads, available() and
\* space() return a value within 0..capacity(), and empty() and full() report
\* only what the buffer was at some instant during the call.
C38_ObserversInRange ==
    obs.pc = "done"
       => /\ obs.fn \in {"available", "space"}
                => ~obs.value.wrapped /\ obs.value.mag <= capacity_
          /\ obs.fn = "empty"
                => IF obs.answer THEN obs.sawEmpty ELSE obs.sawNonEmpty
          /\ obs.fn = "full"
                => IF obs.answer THEN obs.sawFull ELSE obs.sawNotFull

(***************************************************************************)
(* Claims about the VirtualController, checked under CtlSpec.              *)
(***************************************************************************)
\* C39: whatever Click, Press and Release calls are made, a button clicked
\* with durationMs is reported pressed until durationMs after the call, and
\* the first RunFrame at or after that time reports it released (unless a
\* later click still holds it).
C39_ClickHolds ==
    /\ \A q \in promises : steady < q.until => reported[q.button]
    /\ ctlOp.op = "RunFrame"
          => \A q \in ctlOp.met :
                (\A h \in promises : h.button # q.button)
                   => ~reported[q.button]

(***************************************************************************)
(* Claims about HttpServer::Start, checked under HttpFairSpec.             *)
(***************************************************************************)
\* C40: Start always returns, whenever its sleep ends relative to the server
\* thread: true with running_ set and the port within the range tried, or
\* false once every port of the range has failed; it never stays in the join
\* of a server thread that is listening.
C40_StartTerminates ==
    /\ <>(starter.pc = "returned")
    /\ [](starter.pc = "returned"
            => IF starter.ret
               THEN /\ starter.sawRunning
                    /\ starter.startPort <= port_ /\ port_ <= starter.endPort
               ELSE starter.tryPort > starter.endPort)

=============================================================================
